---- MODULE Spec2Model ----
(***************************************************************************)
(* Jinx: a static HTTP origin, a reverse proxy, a forward proxy and a      *)
(* layer-4 load balancer behind one four-method lifecycle.                 *)
(*                                                                         *)
(* Strings are sequences of one-character strings, so that splitting,      *)
(* cleaning and joining are computed character by character as the Go      *)
(* code computes them.                                                     *)
(***************************************************************************)
EXTENDS Integers, Sequences, FiniteSets, TLC

(***************************************************************************)
(* String helpers (strings, path/filepath, net/url as the code uses them)  *)
(***************************************************************************)

\* strings.HasSuffix(s, "/")
HasSuffixSlash(s) == Len(s) > 0 /\ s[Len(s)] = "/"

\* strings.HasPrefix(s, "/")
HasPrefixSlash(s) == Len(s) > 0 /\ s[1] = "/"

\* s[from:] in Go's 0-based slicing written with 1-based positions
Drop(s, n) == SubSeq(s, n + 1, Len(s))

\* index of the first occurrence of character c in s, 0 when absent
RECURSIVE IndexFrom(_, _, _)
IndexFrom(s, c, i) ==
    IF i > Len(s) THEN 0
    ELSE IF s[i] = c THEN i
    ELSE IndexFrom(s, c, i + 1)

IndexOf(s, c) == IndexFrom(s, c, 1)

\* strings.Split(s, sep): the sequence of the pieces of s between separators
RECURSIVE Split(_, _)
Split(s, sep) ==
    LET i == IndexOf(s, sep)
    IN  IF i = 0 THEN <<s>>
        ELSE <<SubSeq(s, 1, i - 1)>> \o Split(Drop(s, i), sep)

\* the pieces of seq joined with a "/" between them
RECURSIVE JoinSlash(_)
JoinSlash(segs) ==
    IF Len(segs) = 0 THEN <<>>
    ELSE IF Len(segs) = 1 THEN segs[1]
    ELSE segs[1] \o <<"/">> \o JoinSlash(Tail(segs))

DotDot == <<".", ".">>

\* the component stack path.Clean builds: "" and "." are skipped, ".."
\* removes the last real component, is kept in front of a relative path
\* and is dropped at the root
RECURSIVE CleanStack(_, _, _)
CleanStack(segs, stack, rooted) ==
    IF Len(segs) = 0 THEN stack
    ELSE LET seg == Head(segs)
             rest == Tail(segs)
         IN  IF seg = <<>> \/ seg = <<".">>
             THEN CleanStack(rest, stack, rooted)
             ELSE IF seg = DotDot
             THEN IF Len(stack) > 0 /\ stack[Len(stack)] # DotDot
                  THEN CleanStack(rest, SubSeq(stack, 1, Len(stack) - 1), rooted)
                  ELSE IF rooted
                  THEN CleanStack(rest, stack, rooted)
                  ELSE CleanStack(rest, Append(stack, seg), rooted)
             ELSE CleanStack(rest, Append(stack, seg), rooted)

\* path.Clean / filepath.Clean on a slash-separated path
Clean(p) ==
    IF p = <<>> THEN <<".">>
    ELSE LET rooted == HasPrefixSlash(p)
             stack  == CleanStack(Split(p, "/"), <<>>, rooted)
         IN  IF rooted THEN <<"/">> \o JoinSlash(stack)
             ELSE IF Len(stack) = 0 THEN <<".">>
             ELSE JoinSlash(stack)

\* SingleJoiningSlash without the case that drops the doubled slash
SingleJoiningSlash_Concat(base, path) ==
    LET baseSlash == HasSuffixSlash(base)
        pathSlash == HasPrefixSlash(path)
    IN  IF ~baseSlash /\ ~pathSlash THEN base \o <<"/">> \o path
        ELSE base \o path

\* helper.SingleJoiningSlash(base, path)
SingleJoiningSlash(base, path) ==
    LET baseSlash == HasSuffixSlash(base)
        pathSlash == HasPrefixSlash(path)
    IN  IF baseSlash /\ pathSlash THEN base \o Drop(path, 1)
        ELSE IF ~baseSlash /\ ~pathSlash THEN base \o <<"/">> \o path
        ELSE base \o path

\* url.Parse on "scheme://host/path": the three fields the Director reads
UrlParse(u) ==
    LET c == IndexOf(u, ":")
        afterScheme == Drop(u, c + 2)
        s == IndexOf(afterScheme, "/")
    IN  [Scheme |-> SubSeq(u, 1, c - 1),
         Host   |-> IF s = 0 THEN afterScheme ELSE SubSeq(afterScheme, 1, s - 1),
         Path   |-> IF s = 0 THEN <<>> ELSE Drop(afterScheme, s - 1)]

(***************************************************************************)
(* Concrete strings of the configurations and requests                     *)
(***************************************************************************)
P_a == <<"/", "a">>
P_b == <<"/", "b">>
P_a_slash == <<"/", "a", "/">>
P_slash_slash_a == <<"/", "/", "a">>
P_a_dot == <<"/", "a", "/", ".", "/">>
P_api == <<"/", "a", "p", "i">>
P_api_users == <<"/", "a", "p", "i", "/", "u", "s", "e", "r", "s">>
P_root == <<"/">>
P_dot == <<".">>
P_v1_users == <<"/", "v", "1", "/", "u", "s", "e", "r", "s">>
P_v1_api == <<"/", "v", "1", "/", "a", "p", "i">>
U_u == <<"h", "t", "t", "p", ":", "/", "/", "u", "/">>
U_u_v1 == <<"h", "t", "t", "p", ":", "/", "/", "u", "/", "v", "1", "/">>
U_s_port == <<"h", "t", "t", "p", "s", ":", "/", "/", "u", ":", "8", "4", "4", "3", "/", "v", "1">>
H_u == <<"u">>
H_u_80 == <<"u", ":", "8", "0">>
Q_id5 == <<"i", "d", "=", "5">>
H_bad == <<"b", "a", "d", ".", "e", "x", "a", "m", "p", "l", "e">>
H_bad_443 == <<"b", "a", "d", ".", "e", "x", "a", "m", "p", "l", "e", ":", "4", "4", "3">>
H_good_80 == <<"g", "o", "o", "d", ".", "e", "x", "a", "m", "p", "l", "e", ":", "8", "0">>
H_v6 == <<"[", ":", ":", "1", "]">>
H_v6_443 == <<"[", ":", ":", "1", "]", ":", "4", "4", "3">>
WebsiteRoot == <<"/", "w">>
ServerWorkingDir == <<"/", "d">>
DEFAULT_WEBSITE_ROOT == <<"w", "w", "w">>
INDEX_FILE == <<"i", "n", "d", "e", "x", ".", "h", "t", "m", "l">>
NOT_FOUND == <<"4", "0", "4", ".", "h", "t", "m", "l">>
H_localhost == <<"l", "o", "c", "a", "l", "h", "o", "s", "t">>
H_localhost_80 == <<"l", "o", "c", "a", "l", "h", "o", "s", "t", ":", "8", "0">>
H_loopback == <<"1", "2", "7", ".", "0", ".", "0", ".", "1">>
H_mysite == <<"m", "y", "s", "i", "t", "e", ".", "c", "o", "m">>
H_other == <<"o", "t", "h", "e", "r", ".", "c", "o", "m">>
H_dotdot == <<".", ".">>
P_index == <<"/", "i", "n", "d", "e", "x", ".", "h", "t", "m", "l">>
P_about == <<"/", "p", "a", "g", "e", "s", "/", "a", "b", "o", "u", "t", ".", "h", "t", "m", "l">>
P_pages == <<"/", "p", "a", "g", "e", "s">>
P_up == <<"/", ".", ".", "/", "x">>

(***************************************************************************)
(* Bounds                                                                  *)
(***************************************************************************)

\* requests handled by the proxy/origin engine in one run
MaxReq == 2

\* bytes relayed per direction of a tunnel or relay
MaxBytes == 1

\* connections accepted by an engine in one run
MaxConn == 2

\* upstream servers in the load balancer's pool
MaxPool == 3

\* Stop, Restart and Destroy calls in one run
MaxOps == 3

\* resources handed to one HandleFetchResources call
MaxResources == 2

(***************************************************************************)
(* State                                                                   *)
(***************************************************************************)
VARIABLES
    engine,       \* which engine handles the requests: "http", "reverse", "forward"
    routeTable,   \* reverse proxy: config.RouteTable, cleaned path -> upstream URL
    blackList,    \* forward proxy: config.BlackList, a sequence of hostnames
    fsDirs,       \* origin: the readable directories on disk
    fsFiles,      \* origin: the regular files on disk
    req,          \* the request being handled and everything its handler did
    nreq,         \* requests received so far
    kind,           \* lifecycle: the engine type "http", "reverse", "forward", "lb"
    tls,            \* config.CertFile and config.KeyFile are both set
    serverInstance, \* jx.serverInstance: "nil" or "set"
    srv,            \* the http.Server behind serverInstance
    listener,       \* the load balancer's net.Listener: "nil" or "open"
    startPc,        \* the caller of Start: "idle", "serving", "returned"
    restartPc,      \* the goroutine launched by Restart: "none", "launched", "ran"
    ops,            \* Stop, Restart and Destroy calls made so far
    bound,          \* Start has bound the listener
    stopReturned,   \* Stop has returned on a bound engine
    acceptedAfterStop, \* a connection was accepted after that
    dirExists,      \* the engine's working directory exists
    exited,         \* the process has terminated (log.Fatal or a fatal signal)
    sig,            \* the interrupt/termination signal: "none", "pending",
                    \* "shutdown" (the handler of Start ran), "killed"
    lastCall,       \* the lifecycle method called last on the engine
    prevCall,       \* the lifecycle method called before that one
    pool,           \* load balancer: config.ServerPool
    currentServer,  \* load balancer: jx.currentServer, the cursor
    conns,          \* load balancer: the accepted connections and their relays
    nconn,          \* connections accepted so far
    call,           \* a helper or setup function applied on its own: its
                    \* name, its inputs, its result
    fetch           \* a run of HandleFetchResources: the goroutines, the
                    \* error channel, the WaitGroup, the collected errors

proxyConf == <<engine, routeTable, blackList, fsDirs, fsFiles>>

proxyVars == <<proxyConf, req, nreq>>

lifeConf == <<kind, tls, pool>>

lifeVars == <<lifeConf, serverInstance, srv, listener, startPc, restartPc, ops,
              bound, stopReturned, acceptedAfterStop, dirExists, exited,
              sig, lastCall, prevCall, currentServer, conns, nconn>>

callVars == <<call, fetch>>

vars == <<callVars, proxyVars, lifeVars>>

NoBody == [arg |-> <<>>, text |-> ""]

NoUpstream == [sent |-> FALSE, Scheme |-> <<>>, Host |-> <<>>, HostHeader |-> <<>>,
               Path |-> <<>>, Query |-> <<>>]

Dirs == {"c2d", "d2c"}

NoReq ==
    [st |-> "none", method |-> "GET", host |-> <<>>, path |-> <<>>, query |-> <<>>,
     upgrade |-> "", connection |-> "",
     status |-> 0, body |-> NoBody, headers |-> {},
     performed |-> {}, branches |-> {}, fail |-> "none",
     client |-> "none", dest |-> "none", dialed |-> <<>>,
     clientWrites |-> <<>>, destWrites |-> <<>>, upstreamReq |-> NoUpstream,
     defers |-> <<>>, steps |-> <<>>,
     cp |-> [d \in Dirs |-> "none"],
     ended |-> [d \in Dirs |-> FALSE],
     relayed |-> [d \in Dirs |-> 0],
     closes |-> [client |-> 0, dest |-> 0]]

\* the i-th upstream descriptor of a server pool
UpStreamServer(i) == [IP |-> i, Port |-> 8080]

NoUpStream == [IP |-> 0, Port |-> 0]

\* a server pool of n upstreams
ServerPool(n) == [i \in 1..n |-> UpStreamServer(i)]

NoConn == [pc |-> "none", upstream |-> NoUpStream,
           copy |-> [d \in Dirs |-> "none"],
           client |-> "none", remote |-> "none"]

FreshServer == [listening |-> FALSE, inShutdown |-> FALSE]

\* no helper is applied on its own
NoCall == [fn |-> "none", pc |-> "none"]

\* HandleFetchResources is not running
NoFetch == [pc |-> "none"]

\* the lifecycle state right after the constructor
LifeAtRest ==
    /\ serverInstance = "nil"
    /\ srv = FreshServer
    /\ listener = "nil"
    /\ startPc = "idle"
    /\ restartPc = "none"
    /\ ops = 0
    /\ bound = FALSE
    /\ stopReturned = FALSE
    /\ acceptedAfterStop = FALSE
    /\ dirExists = TRUE
    /\ exited = FALSE
    /\ sig = "none"
    /\ lastCall = "none"
    /\ prevCall = "none"
    /\ currentServer = -1
    /\ conns = [k \in 1..MaxConn |-> NoConn]
    /\ nconn = 0

(***************************************************************************)
(* Shared request helpers                                                  *)
(***************************************************************************)

\* strings.ToLower on the header values the requests carry
ToLower(s) ==
    CASE s = "WebSocket" -> "websocket"
      [] s = "Upgrade" -> "upgrade"
      [] s = "keep-alive, Upgrade" -> "keep-alive, upgrade"
      [] OTHER -> s

\* strings.Contains(connectionHeader, "upgrade")
ContainsUpgrade(s) == s \in {"upgrade", "keep-alive, upgrade"}

\* the WebSocket test of both proxies' ServeHTTP
IsWebSocketUpgrade(r) ==
    ToLower(r.upgrade) = "websocket" /\ ContainsUpgrade(ToLower(r.connection))

\* http.Error(w, text, code): after a hijack the response writer drops it
HttpError(r, code, arg, text) ==
    IF r.client # "none" THEN r
    ELSE [r EXCEPT !.status = code, !.body = [arg |-> arg, text |-> text]]

\* conn.Close() on the client or the upstream connection of a request
CloseConn(r, c) ==
    IF c = "client"
    THEN [r EXCEPT !.client = "closed", !.closes.client = @ + 1]
    ELSE [r EXCEPT !.dest = "closed", !.closes.dest = @ + 1]

\* the hijack failures answered 500 by the tunnel and relay handlers
HijackFailure(r, fail) ==
    HttpError([r EXCEPT !.fail = fail], 500, <<>>,
              IF fail = "hijacker" THEN "HTTP Server does not support hijacking"
              ELSE "hijack error")

\* the only bytes the tunnel handler itself writes to the client
ConnectionEstablished == "HTTP/1.1 200 Connection Established\r\n\r\n"

\* the tunnel handler writing its 200 line before it dials
handleHTTPSProxyRequest_WriteFirst(r0, fail) ==
    LET r == [r0 EXCEPT !.branches = @ \cup {"tunnel"}]
        hijacked == [r EXCEPT !.client = "open", !.steps = <<"hijack", "200">>,
                              !.clientWrites = <<ConnectionEstablished>>]
        dialing == [hijacked EXCEPT !.dialed = <<r.host>>, !.steps = @ \o <<"dial">>]
    IN  IF fail \in {"hijacker", "hijack"} THEN HijackFailure(r, fail)
        ELSE IF fail = "dial"
        THEN CloseConn([dialing EXCEPT !.fail = "dial", !.steps = @ \o <<"close">>],
                       "client")
        ELSE [dialing EXCEPT !.dest = "open",
                             !.steps = @ \o <<"copiers">>,
                             !.cp = [d \in Dirs |-> "copy"],
                             !.performed = @ \cup {"tunnel"}]

\* the tunnel handler returning on a failed dial without closing the client
handleHTTPSProxyRequest_NoClose(r0, fail) ==
    LET r == [r0 EXCEPT !.branches = @ \cup {"tunnel"}]
        hijacked == [r EXCEPT !.client = "open", !.steps = <<"hijack">>]
        dialing == [hijacked EXCEPT !.dialed = <<r.host>>, !.steps = @ \o <<"dial">>]
    IN  IF fail \in {"hijacker", "hijack"} THEN HijackFailure(r, fail)
        ELSE IF fail = "dial" THEN [dialing EXCEPT !.fail = "dial"]
        ELSE [dialing EXCEPT !.dest = "open",
                             !.clientWrites = <<ConnectionEstablished>>,
                             !.steps = @ \o <<"200", "copiers">>,
                             !.cp = [d \in Dirs |-> "copy"],
                             !.performed = @ \cup {"tunnel"}]

\* handleHTTPSProxyRequest of both proxies: hijack, dial r.Host (a failed
\* dial closes the client and returns), write the 200 line, start two copiers
handleHTTPSProxyRequest(r0, fail) ==
    LET r == [r0 EXCEPT !.branches = @ \cup {"tunnel"}]
        hijacked == [r EXCEPT !.client = "open", !.steps = <<"hijack">>]
        dialing == [hijacked EXCEPT !.dialed = <<r.host>>, !.steps = @ \o <<"dial">>]
    IN  IF fail \in {"hijacker", "hijack"} THEN HijackFailure(r, fail)
        ELSE IF fail = "dial"
        THEN CloseConn([dialing EXCEPT !.fail = "dial", !.steps = @ \o <<"close">>],
                       "client")
        ELSE [dialing EXCEPT !.dest = "open",
                             !.clientWrites = <<ConnectionEstablished>>,
                             !.steps = @ \o <<"200", "copiers">>,
                             !.cp = [d \in Dirs |-> "copy"],
                             !.performed = @ \cup {"tunnel"}]

\* handleWebSocketConnect / handleWebSocketProxyRequest: hijack, dial, forward
\* the upgrade request, forward the response, two copiers; both connections
\* are closed by deferred calls when the handler returns
handleWebSocketConnect(r0, fail) ==
    LET r == [r0 EXCEPT !.branches = @ \cup {"ws"}]
        hijacked == [r EXCEPT !.client = "open", !.defers = <<"client">>,
                              !.dialed = <<r.host>>, !.steps = <<"hijack", "dial">>]
        dialed == [hijacked EXCEPT !.dest = "open", !.defers = <<"client", "dest">>]
        written == [dialed EXCEPT !.destWrites = <<"upgrade request">>,
                                  !.steps = @ \o <<"writeReq">>]
    IN  IF fail \in {"hijacker", "hijack"} THEN HijackFailure(r, fail)
        ELSE IF fail = "dial" THEN [hijacked EXCEPT !.fail = fail]
        ELSE IF fail = "writeReq"
        THEN HttpError([dialed EXCEPT !.fail = fail], 500, <<>>,
                       "Failed to send WebSocket upgrade request to the destination server")
        ELSE IF fail = "readResp"
        THEN HttpError([written EXCEPT !.fail = fail], 500, <<>>,
                       "Failed to read WebSocket upgrade response from the destination server")
        ELSE IF fail = "writeResp"
        THEN HttpError([written EXCEPT !.fail = fail], 500, <<>>,
                       "Failed to send WebSocket upgrade request to the client")
        ELSE [written EXCEPT !.clientWrites = <<"upstream response">>,
                             !.steps = @ \o <<"readResp", "writeResp", "copiers">>,
                             !.cp = [d \in Dirs |-> "copy"],
                             !.performed = @ \cup {"ws"}]

(***************************************************************************)
(* Reverse proxy engine                                                    *)
(***************************************************************************)

\* DetermineUpstreamURL looking up the URL path as received, not cleaned
DetermineUpstreamURL_Raw(r) ==
    IF r.path \in DOMAIN routeTable
    THEN [ok |-> TRUE, url |-> routeTable[r.path], path |-> r.path]
    ELSE [ok |-> FALSE, url |-> <<>>, path |-> r.path]

\* DetermineUpstreamURL: exact lookup of the cleaned URL path in the table
DetermineUpstreamURL(r) ==
    LET path == Clean(r.path)
    IN  IF path \in DOMAIN routeTable
        THEN [ok |-> TRUE, url |-> routeTable[path], path |-> path]
        ELSE [ok |-> FALSE, url |-> <<>>, path |-> path]

\* the Director leaving the Host header of the incoming request in place
ReverseDirector_KeepHostHeader(r, upstreamURL) ==
    LET target == UrlParse(upstreamURL)
    IN  [sent |-> TRUE, Scheme |-> target.Scheme, Host |-> target.Host,
         HostHeader |-> r.host,
         Path |-> SingleJoiningSlash(target.Path, r.path), Query |-> r.query]

\* the Director of HandleHTTPProxyRequest: r.URL.Scheme, r.URL.Host and
\* r.Host from the target, r.URL.Path joined; the query is not touched
ReverseDirector(r, upstreamURL) ==
    LET target == UrlParse(upstreamURL)
    IN  [sent |-> TRUE, Scheme |-> target.Scheme, Host |-> target.Host,
         HostHeader |-> target.Host,
         Path |-> SingleJoiningSlash(target.Path, r.path), Query |-> r.query]

\* HandleHTTPProxyRequest of the reverse proxy: the Director rewrites the
\* request and httputil.ReverseProxy sends it; the ErrorHandler only logs
ReverseHandleHTTPProxyRequest(r, upstreamURL, fail) ==
    [r EXCEPT !.branches = @ \cup {"reverse"},
              !.performed = @ \cup {"reverse"},
              !.upstreamReq = ReverseDirector(r, upstreamURL),
              !.fail = IF fail = "upstream" THEN fail ELSE "none",
              !.status = IF fail = "upstream" THEN 0 ELSE 200]

\* the 404 answer of the reverse proxy's ServeHTTP on a route miss
RouteMiss(r, path) ==
    [HttpError(r, 404, path, "does not exist in route table:")
        EXCEPT !.branches = @ \cup {"404"}, !.performed = @ \cup {"404"}]

\* ServeHTTP of the reverse proxy without the return after the 404
ReverseServeHTTP_FallThrough(r, fail) ==
    LET res == DetermineUpstreamURL(r)
    IN  IF ~res.ok
        THEN ReverseHandleHTTPProxyRequest(RouteMiss(r, res.path), U_u, fail)
        ELSE IF r.method = "CONNECT" THEN handleHTTPSProxyRequest(r, fail)
        ELSE IF IsWebSocketUpgrade(r) THEN handleWebSocketConnect(r, fail)
        ELSE ReverseHandleHTTPProxyRequest(r, res.url, fail)

\* JinxReverseProxyServer.ServeHTTP
ReverseServeHTTP(r, fail) ==
    LET res == DetermineUpstreamURL(r)
    IN  IF ~res.ok THEN RouteMiss(r, res.path)
        ELSE IF r.method = "CONNECT" THEN handleHTTPSProxyRequest(r, fail)
        ELSE IF IsWebSocketUpgrade(r) THEN handleWebSocketConnect(r, fail)
        ELSE ReverseHandleHTTPProxyRequest(r, res.url, fail)

(***************************************************************************)
(* Forward proxy engine                                                    *)
(***************************************************************************)

\* helper.InList(list, element, ==)
InList(list, element) == \E i \in 1..Len(list) : list[i] = element

\* ValidateUpstreamURL: the request host up to its first ":" against the list
ValidateUpstreamURL(r) ==
    LET reqHost == Split(r.host, ":")[1]
    IN  [ok |-> ~InList(blackList, reqHost), host |-> reqHost]

\* HandleHTTPProxyRequest of the forward proxy: the Director changes nothing
ForwardHandleHTTPProxyRequest(r, fail) ==
    [r EXCEPT !.branches = @ \cup {"forward"},
              !.performed = @ \cup {"forward"},
              !.upstreamReq = [sent |-> TRUE, Scheme |-> <<>>, Host |-> r.host,
                               HostHeader |-> r.host,
                               Path |-> r.path, Query |-> r.query],
              !.fail = IF fail = "upstream" THEN fail ELSE "none",
              !.status = IF fail = "upstream" THEN 0 ELSE 200]

\* the 403 answer of the forward proxy's ServeHTTP
Blacklisted(r, reqHost) ==
    [HttpError(r, 403, reqHost, "has been blacklisted")
        EXCEPT !.branches = @ \cup {"403"}, !.performed = @ \cup {"403"}]

\* JinxForwardProxyServer.ServeHTTP
ForwardServeHTTP(r, fail) ==
    LET res == ValidateUpstreamURL(r)
    IN  IF ~res.ok THEN Blacklisted(r, res.host)
        ELSE IF r.method = "CONNECT" THEN handleHTTPSProxyRequest(r, fail)
        ELSE IF IsWebSocketUpgrade(r) THEN handleWebSocketConnect(r, fail)
        ELSE ForwardHandleHTTPProxyRequest(r, fail)

(***************************************************************************)
(* HTTP origin engine                                                      *)
(***************************************************************************)

\* filepath.Join: the non-empty elements joined by "/" and cleaned
Join(elems) ==
    LET ne == SelectSeq(elems, LAMBDA e : e # <<>>)
    IN  IF Len(ne) = 0 THEN <<>> ELSE Clean(JoinSlash(ne))

\* helper.IsLocalhostOrIP: "localhost" or a loopback IP literal
IsLocalhostOrIP(host) == host = H_localhost \/ host = H_loopback

\* helper.IsDirReadable
IsDirReadable(dirPath) == dirPath \in fsDirs

\* ResolveFilePath that takes the host's directory without the readable check
ResolveFilePath_NoReadableCheck(r) ==
    LET host0 == Split(r.host, ":")[1]
        urlPath == Clean(r.path)
        useDefault == IsLocalhostOrIP(host0)
        root == IF useDefault THEN ServerWorkingDir ELSE WebsiteRoot
        host == IF useDefault THEN DEFAULT_WEBSITE_ROOT ELSE host0
        file == Join(<<root, host, urlPath>>)
    IN  IF urlPath = <<>> \/ urlPath = P_root
        THEN [ok |-> TRUE, file |-> Join(<<file, INDEX_FILE>>),
              root |-> Join(<<root, host>>)]
        ELSE IF file \notin fsFiles
        THEN [ok |-> FALSE, file |-> Join(<<root, host, NOT_FOUND>>),
              root |-> Join(<<root, host>>)]
        ELSE [ok |-> TRUE, file |-> file, root |-> Join(<<root, host>>)]

\* JinxHttpServer.ResolveFilePath; root is the directory the file is
\* resolved in, filepath.Join(root, host)
ResolveFilePath(r) ==
    LET host0 == Split(r.host, ":")[1]
        urlPath == Clean(r.path)
        useDefault == IsLocalhostOrIP(host0)
                        \/ ~IsDirReadable(Join(<<WebsiteRoot, host0>>))
        root == IF useDefault THEN ServerWorkingDir ELSE WebsiteRoot
        host == IF useDefault THEN DEFAULT_WEBSITE_ROOT ELSE host0
        file == Join(<<root, host, urlPath>>)
    IN  IF urlPath = <<>> \/ urlPath = P_root
        THEN [ok |-> TRUE, file |-> Join(<<file, INDEX_FILE>>),
              root |-> Join(<<root, host>>)]
        ELSE IF file \notin fsFiles
        THEN [ok |-> FALSE, file |-> Join(<<root, host, NOT_FOUND>>),
              root |-> Join(<<root, host>>)]
        ELSE [ok |-> TRUE, file |-> file, root |-> Join(<<root, host>>)]

\* JinxHttpServer.Serve404: the 404 document, or plain text when unreadable
Serve404(r, filePath) ==
    [r EXCEPT !.branches = @ \cup {"404"}, !.performed = @ \cup {"404"},
              !.status = 404,
              !.body = IF filePath \in fsFiles
                       THEN [arg |-> filePath, text |-> "file content"]
                       ELSE [arg |-> <<>>, text |-> "404 Not Found"]]

\* strings.HasSuffix(s, suffix)
HasSuffix(s, suffix) ==
    Len(s) >= Len(suffix) /\ SubSeq(s, Len(s) - Len(suffix) + 1, Len(s)) = suffix

\* a ".." element in a URL path
ContainsDotDot(p) == \E i \in 1..Len(Split(p, "/")) : Split(p, "/")[i] = DotDot

\* net/http.ServeFile as ServeFile calls it: 400 for a URL path with a ".."
\* element, a redirect of ".../index.html" to "./", the file's content, or
\* its own 404 when the file (an absent index.html) cannot be opened
HttpServeFile(r, name) ==
    IF ContainsDotDot(r.path)
    THEN [status |-> 400, outcome |-> "static",
          body |-> [arg |-> <<>>, text |-> "invalid URL path"]]
    ELSE IF HasSuffix(r.path, P_index)
    THEN [status |-> 301, outcome |-> "static",
          body |-> [arg |-> <<".", "/">>, text |-> "redirect"]]
    ELSE IF name \in fsFiles
    THEN [status |-> 200, outcome |-> "static",
          body |-> [arg |-> name, text |-> "file content"]]
    ELSE [status |-> 404, outcome |-> "404",
          body |-> [arg |-> <<>>, text |-> "404 page not found"]]

\* JinxHttpServer.ServeFile: the two headers, then http.ServeFile
ServeFile(r, filePath) ==
    LET answer == HttpServeFile(r, filePath)
    IN  [r EXCEPT !.branches = @ \cup {"static"},
                  !.performed = @ \cup {answer.outcome},
                  !.headers = {"Cache-Control: max-age=3600", "Server: Jinx"},
                  !.status = answer.status,
                  !.body = answer.body]

\* JinxHttpServer.ServeHTTP
HttpServeHTTP(r) ==
    LET res == ResolveFilePath(r)
    IN  IF ~res.ok THEN Serve404(r, res.file) ELSE ServeFile(r, res.file)

(***************************************************************************)
(* Request handling: one request at a time, each handled to its end.       *)
(* Handlers of different requests share only the immutable configuration.  *)
(***************************************************************************)

Methods == {"GET", "CONNECT"}

UpgradeHeaders == {"", "WebSocket"}

ConnectionHeaders == {"keep-alive", "keep-alive, Upgrade"}

\* where the environment makes a handler fail
FailPoints == {"none", "hijacker", "hijack", "dial", "writeReq", "readResp",
               "writeResp", "upstream"}

RoutePaths == {<<>>, P_root, P_a, P_b, P_a_slash, P_slash_slash_a, P_a_dot,
               P_api, P_api_users}

RouteTables ==
    { [k \in {P_a} |-> U_u],
      [k \in {P_api} |-> U_u_v1],
      [k \in {P_a, P_dot} |-> U_u],
      [k \in {P_b, P_a_slash, P_root} |-> IF k = P_b THEN U_s_port ELSE U_u] }

ForwardHosts == {H_bad_443, H_bad, H_good_80, H_v6_443}

BlackLists == { <<>>, <<H_bad>>, <<H_bad, H_v6>> }

OriginHosts == {H_localhost_80, H_loopback, H_v6_443, H_mysite, H_other, H_dotdot}

OriginPaths == {<<>>, P_root, P_index, P_about, P_pages, P_up,
                <<"/", ".", ".">> \o P_index}

FsConfigs ==
    { [dirs  |-> {P_root, WebsiteRoot, ServerWorkingDir,
                  Join(<<ServerWorkingDir, DEFAULT_WEBSITE_ROOT>>),
                  Join(<<WebsiteRoot, H_mysite>>)},
       files |-> {Join(<<ServerWorkingDir, DEFAULT_WEBSITE_ROOT, INDEX_FILE>>),
                  Join(<<ServerWorkingDir, DEFAULT_WEBSITE_ROOT, NOT_FOUND>>),
                  Join(<<WebsiteRoot, H_mysite, INDEX_FILE>>),
                  Join(<<WebsiteRoot, H_mysite, NOT_FOUND>>)}],
      [dirs  |-> {P_root, WebsiteRoot, ServerWorkingDir,
                  Join(<<ServerWorkingDir, DEFAULT_WEBSITE_ROOT>>),
                  Join(<<WebsiteRoot, H_mysite>>),
                  Join(<<WebsiteRoot, H_mysite, P_pages>>)},
       files |-> {Join(<<ServerWorkingDir, DEFAULT_WEBSITE_ROOT, INDEX_FILE>>),
                  Join(<<WebsiteRoot, H_mysite, P_about>>)}] }

InitProxy ==
    /\ engine \in {"http", "reverse", "forward"}
    /\ routeTable \in IF engine = "reverse" THEN RouteTables
                      ELSE {[k \in {P_a} |-> U_u]}
    /\ blackList \in IF engine = "forward" THEN BlackLists ELSE {<<>>}
    /\ \E fs \in IF engine = "http" THEN FsConfigs
                  ELSE {[dirs |-> {}, files |-> {}]} :
         fsDirs = fs.dirs /\ fsFiles = fs.files
    /\ req = NoReq
    /\ nreq = 0
    /\ call = NoCall
    /\ fetch = NoFetch
    /\ kind = engine
    /\ tls = FALSE
    /\ pool = [i \in 1..1 |-> UpStreamServer(i)]
    /\ LifeAtRest

CopiersAtRest == \A d \in Dirs : req.cp[d] \in {"none", "done"}

\* a request arrives once the previous one has been handled to its end
Receive ==
    /\ nreq < MaxReq
    /\ req.st \in {"none", "returned"}
    /\ CopiersAtRest
    /\ nreq' = nreq + 1
    /\ \E m \in Methods, u \in UpgradeHeaders, c \in ConnectionHeaders :
         \/ /\ engine = "reverse"
            /\ \E p \in RoutePaths, q \in {<<>>, Q_id5} :
                 req' = [NoReq EXCEPT !.st = "received", !.method = m, !.upgrade = u,
                                      !.connection = c, !.host = H_u_80,
                                      !.path = p, !.query = q]
         \/ /\ engine = "forward"
            /\ \E h \in ForwardHosts :
                 req' = [NoReq EXCEPT !.st = "received", !.method = m, !.upgrade = u,
                                      !.connection = c, !.host = h, !.path = P_root]
         \/ /\ engine = "http"
            /\ m = "GET" /\ u = "" /\ c = "keep-alive"
            /\ \E h \in OriginHosts, p \in OriginPaths :
                 req' = [NoReq EXCEPT !.st = "received", !.method = m, !.upgrade = u,
                                      !.connection = c, !.host = h, !.path = p]
    /\ UNCHANGED <<callVars, proxyConf, lifeVars>>

\* the engine's ServeHTTP runs up to its return statement
ServeHTTP ==
    /\ req.st = "received"
    /\ \E fail \in FailPoints :
         LET r == [req EXCEPT !.st = "handling"]
         IN  req' = CASE engine = "reverse" -> ReverseServeHTTP(r, fail)
                      [] engine = "forward" -> ForwardServeHTTP(r, fail)
                      [] OTHER -> HttpServeHTTP(r)
    /\ UNCHANGED <<callVars, proxyConf, nreq, lifeVars>>

\* the deferred calls of a handler, last registered first
RECURSIVE RunDefers(_, _)
RunDefers(r, ds) ==
    IF Len(ds) = 0 THEN r
    ELSE RunDefers(CloseConn(r, ds[Len(ds)]), SubSeq(ds, 1, Len(ds) - 1))

\* ServeHTTP returns: the handler's deferred closes run
HandlerReturn ==
    /\ req.st = "handling"
    /\ req' = [RunDefers(req, req.defers) EXCEPT !.st = "returned", !.defers = <<>>]
    /\ UNCHANGED <<callVars, proxyConf, nreq, lifeVars>>

\* the peer at the source of direction d closes or fails: the next Read of
\* that direction's io.Copy returns EOF or an error
PeerEnd(d) ==
    /\ req.cp[d] = "copy"
    /\ ~req.ended[d]
    /\ req' = [req EXCEPT !.ended[d] = TRUE]
    /\ UNCHANGED <<callVars, proxyConf, nreq, lifeVars>>

\* io.Copy of direction d moves bytes while both connections are open
CopyBytes(d) ==
    /\ req.cp[d] = "copy"
    /\ ~req.ended[d]
    /\ req.client = "open" /\ req.dest = "open"
    /\ req.relayed[d] < MaxBytes
    /\ req' = IF d = "c2d"
               THEN [req EXCEPT !.relayed[d] = @ + 1, !.destWrites = Append(@, "byte")]
               ELSE [req EXCEPT !.relayed[d] = @ + 1, !.clientWrites = Append(@, "byte")]
    /\ UNCHANGED <<callVars, proxyConf, nreq, lifeVars>>

\* io.Copy of direction d returns: its source ended, or a connection it
\* uses has been closed under it
CopyReturn(d) ==
    /\ req.cp[d] = "copy"
    /\ req.ended[d] \/ req.client = "closed" \/ req.dest = "closed"
    /\ req' = [req EXCEPT !.cp[d] = "closing"]
    /\ UNCHANGED <<callVars, proxyConf, nreq, lifeVars>>

\* Transfer without its deferred closes
Transfer_NoClose(r, d) == [r EXCEPT !.cp[d] = "done"]

\* Transfer closing only the connection it writes to
Transfer_CloseDst(r, d) ==
    [CloseConn(r, IF d = "c2d" THEN "dest" ELSE "client") EXCEPT !.cp[d] = "done"]

\* helper.Transfer's deferred function: dst.Close(), then src.Close()
Transfer(r, d) ==
    LET dst == IF d = "c2d" THEN "dest" ELSE "client"
        src == IF d = "c2d" THEN "client" ELSE "dest"
    IN  [CloseConn(CloseConn(r, dst), src) EXCEPT !.cp[d] = "done"]

TransferClose(d) ==
    /\ req.cp[d] = "closing"
    /\ req' = Transfer(req, d)
    /\ UNCHANGED <<callVars, proxyConf, nreq, lifeVars>>

NextProxy ==
    \/ Receive
    \/ ServeHTTP
    \/ HandlerReturn
    \/ \E d \in Dirs : PeerEnd(d)
    \/ \E d \in Dirs : CopyBytes(d)
    \/ \E d \in Dirs : CopyReturn(d)
    \/ \E d \in Dirs : TransferClose(d)

SpecProxy == InitProxy /\ [][NextProxy]_vars

\* the scheduler runs every goroutine that can take a step
FairSpecProxy ==
    /\ SpecProxy
    /\ WF_vars(HandlerReturn)
    /\ \A d \in Dirs : WF_vars(CopyReturn(d)) /\ WF_vars(TransferClose(d))

(***************************************************************************)
(* Lifecycle of the four engines and the load balancer's relay             *)
(***************************************************************************)

EngineKinds == {"http", "reverse", "forward", "lb"}

Init ==
    /\ kind \in EngineKinds
    /\ tls \in BOOLEAN
    /\ \E n \in 1..MaxPool : pool = ServerPool(n)
    /\ kind # "lb" => Len(pool) = 1
    /\ LifeAtRest
    /\ call = NoCall
    /\ fetch = NoFetch
    /\ engine = "http"
    /\ routeTable = [k \in {P_a} |-> U_u]
    /\ blackList = <<>>
    /\ fsDirs = {}
    /\ fsFiles = {}
    /\ req = NoReq
    /\ nreq = 0

\* http.Server.ListenAndServe / ListenAndServeTLS: a server that Shutdown
\* has closed returns ErrServerClosed at once, otherwise it binds and serves
ListenAndServe(s, bindOk) ==
    IF s.inShutdown THEN [s |-> s, fatal |-> FALSE]
    ELSE IF ~bindOk THEN [s |-> s, fatal |-> TRUE]
    ELSE [s |-> [s EXCEPT !.listening = TRUE], fatal |-> FALSE]

\* http.Server.Shutdown: no new connections from now on, listeners closed
Shutdown(s) == [s EXCEPT !.inShutdown = TRUE, !.listening = FALSE]

\* Start of the origin, reverse-proxy and forward-proxy engines: a new
\* http.Server is stored in serverInstance and serves on the caller's
\* goroutine; a bind or certificate failure ends the process (log.Fatal)
HttpStart ==
    /\ kind # "lb"
    /\ ~exited
    /\ startPc = "idle"
    /\ serverInstance' = "set"
    /\ \E bindOk \in BOOLEAN :
         LET res == ListenAndServe(FreshServer, bindOk)
         IN  /\ srv' = res.s
             /\ exited' = res.fatal
             /\ bound' = res.s.listening
             /\ startPc' = IF res.fatal THEN "returned" ELSE "serving"
    /\ lastCall' = "Start"
    /\ prevCall' = lastCall
    /\ UNCHANGED <<callVars, proxyVars, lifeConf, sig, listener, restartPc, ops, stopReturned,
                   acceptedAfterStop, dirExists, currentServer, conns, nconn>>

\* the blocked ListenAndServe of Start returns once the server is shut down
HttpStartReturn ==
    /\ kind # "lb"
    /\ ~exited
    /\ startPc = "serving"
    /\ srv.inShutdown
    /\ startPc' = "returned"
    /\ UNCHANGED <<callVars, proxyVars, lifeConf, sig, lastCall, prevCall, serverInstance, srv, listener, restartPc,
                   ops, bound, stopReturned, acceptedAfterStop, dirExists, exited,
                   currentServer, conns, nconn>>

\* JinxLoadBalancingServer.Start: listen (a failure is only logged), launch
\* the accept loop, return; serverInstance is not assigned
LBStart ==
    /\ kind = "lb"
    /\ ~exited
    /\ startPc = "idle"
    /\ \E listenOk \in BOOLEAN :
         /\ listener' = IF listenOk THEN "open" ELSE "nil"
         /\ bound' = listenOk
    /\ startPc' = "returned"
    /\ lastCall' = "Start"
    /\ prevCall' = lastCall
    /\ UNCHANGED <<callVars, proxyVars, lifeConf, sig, serverInstance, srv, restartPc, ops,
                   stopReturned, acceptedAfterStop, dirExists, exited,
                   currentServer, conns, nconn>>

\* Stop shutting the server down without looking at serverInstance
Stop_NoGuard(s) == Shutdown(s)

\* the effect of Stop on the server: nothing without a serverInstance
Stop(s) == IF serverInstance = "nil" THEN s ELSE Shutdown(s)

\* Stop called by a goroutine that holds the engine
StopCall ==
    /\ ~exited
    /\ ops < MaxOps
    /\ ops' = ops + 1
    /\ srv' = Stop(srv)
    /\ stopReturned' = (stopReturned \/ bound)
    /\ lastCall' = "Stop"
    /\ prevCall' = lastCall
    /\ UNCHANGED <<callVars, proxyVars, lifeConf, sig, serverInstance, listener, startPc,
                   restartPc, bound, acceptedAfterStop, dirExists, exited,
                   currentServer, conns, nconn>>

\* Restart: nothing without a serverInstance; otherwise Stop, then a new
\* goroutine that calls ListenAndServe on the same serverInstance
RestartCall ==
    /\ ~exited
    /\ ops < MaxOps
    /\ restartPc # "launched"
    /\ ops' = ops + 1
    /\ srv' = Stop(srv)
    /\ restartPc' = IF serverInstance = "nil" THEN restartPc ELSE "launched"
    /\ stopReturned' = (stopReturned \/ bound)
    /\ lastCall' = "Restart"
    /\ prevCall' = lastCall
    /\ UNCHANGED <<callVars, proxyVars, lifeConf, sig, serverInstance, listener, startPc,
                   bound, acceptedAfterStop, dirExists, exited,
                   currentServer, conns, nconn>>

\* the goroutine launched by Restart runs ListenAndServe(TLS)
RestartServe ==
    /\ ~exited
    /\ restartPc = "launched"
    /\ \E bindOk \in BOOLEAN :
         LET res == ListenAndServe(srv, bindOk)
         IN  /\ srv' = res.s
             /\ exited' = res.fatal
             /\ stopReturned' = IF res.s.listening THEN FALSE ELSE stopReturned
    /\ restartPc' = "ran"
    /\ UNCHANGED <<callVars, proxyVars, lifeConf, sig, lastCall, prevCall, serverInstance, listener, startPc, ops,
                   bound, acceptedAfterStop, dirExists, currentServer, conns, nconn>>

\* Destroy deleting the working directory whether or not the engine runs
Destroy_NoGuard(exists) == FALSE

\* the effect of Destroy on the working directory: nothing without a
\* serverInstance, otherwise os.RemoveAll after Stop
Destroy(exists) == IF serverInstance = "nil" THEN exists ELSE FALSE

\* Destroy called by a goroutine that holds the engine
DestroyCall ==
    /\ ~exited
    /\ ops < MaxOps
    /\ ops' = ops + 1
    /\ srv' = Stop(srv)
    /\ dirExists' = Destroy(dirExists)
    /\ stopReturned' = (stopReturned \/ bound)
    /\ lastCall' = "Destroy"
    /\ prevCall' = lastCall
    /\ UNCHANGED <<callVars, proxyVars, lifeConf, sig, serverInstance, listener, startPc,
                   restartPc, bound, acceptedAfterStop, exited,
                   currentServer, conns, nconn>>

\* an interrupt or termination signal reaches the process after Start: the
\* origin and the two proxies have registered signalChan with signal.Notify,
\* the load balancer registers nothing, so the runtime's default ends it
Signal ==
    /\ ~exited
    /\ startPc # "idle"
    /\ sig = "none"
    /\ sig' = IF kind = "lb" THEN "killed" ELSE "pending"
    /\ exited' = (kind = "lb")
    /\ UNCHANGED <<callVars, proxyVars, lifeConf, lastCall, prevCall, serverInstance, srv, listener,
                   startPc, restartPc, ops, bound, stopReturned,
                   acceptedAfterStop, dirExists, currentServer, conns, nconn>>

\* the goroutine of Start that waits on signalChan: s.Shutdown(ctx)
SignalShutdown ==
    /\ ~exited
    /\ sig = "pending"
    /\ sig' = "shutdown"
    /\ srv' = Shutdown(srv)
    /\ UNCHANGED <<callVars, proxyVars, lifeConf, lastCall, prevCall, serverInstance, listener,
                   startPc, restartPc, ops, bound, stopReturned,
                   acceptedAfterStop, dirExists, exited, currentServer, conns,
                   nconn>>

\* the engine accepts connections: the http.Server while it is listening,
\* the load balancer's loop while its listener is not nil
CanAccept == IF kind = "lb" THEN listener = "open" ELSE srv.listening

\* the http.Server accepts a connection
HttpAccept ==
    /\ kind # "lb"
    /\ ~exited
    /\ CanAccept
    /\ nconn < MaxConn
    /\ nconn' = nconn + 1
    /\ acceptedAfterStop' = (acceptedAfterStop \/ stopReturned)
    /\ UNCHANGED <<callVars, proxyVars, lifeConf, sig, lastCall, prevCall, serverInstance, srv, listener, startPc,
                   restartPc, ops, bound, stopReturned, dirExists, exited,
                   currentServer, conns>>

\* one turn of the load balancer's accept loop: Accept, the error logged if
\* there is one, then go ProxyTCP(conn) in both cases; conn is nil when
\* Accept returned an error
LBAccept ==
    /\ kind = "lb"
    /\ ~exited
    /\ CanAccept
    /\ nconn < MaxConn
    /\ nconn' = nconn + 1
    /\ \E acceptOk \in BOOLEAN :
         conns' = [conns EXCEPT ![nconn + 1] =
                     [NoConn EXCEPT !.pc = "spawned",
                                    !.client = IF acceptOk THEN "open" ELSE "nil"]]
    /\ acceptedAfterStop' = (acceptedAfterStop \/ stopReturned)
    /\ UNCHANGED <<callVars, proxyVars, lifeConf, sig, lastCall, prevCall, serverInstance, srv, listener, startPc,
                   restartPc, ops, bound, stopReturned, dirExists, exited,
                   currentServer>>

\* Go's a % b for b > 0: the remainder has the sign of a
GoRem(a, b) == IF a >= 0 THEN a % b ELSE 0 - ((0 - a) % b)

\* algo.RoundRobin(servers, currentServer, lock): the cursor is an int
\* parameter; the function returns the server and stores nothing; an index
\* outside the slice is a run-time panic, and so is the remainder by the
\* length of an empty slice
RoundRobin(servers, cursor) ==
    IF Len(servers) = 0
    THEN [server |-> NoUpStream, cursor |-> cursor, panic |-> TRUE]
    ELSE LET nextServerIndex == GoRem(cursor + 1, Len(servers))
         IN  IF nextServerIndex \in 0..(Len(servers) - 1)
             THEN [server |-> servers[nextServerIndex + 1], cursor |-> cursor,
                   panic |-> FALSE]
             ELSE [server |-> NoUpStream, cursor |-> cursor, panic |-> TRUE]

\* ProxyTCP up to the dial: pick the upstream, dial it; a failed dial
\* closes the client connection and ends the task. conn.Close() on the nil
\* conn of a failed Accept is a nil pointer dereference: the panic of a
\* goroutine ends the process
ProxyTCPDial(k) ==
    /\ ~exited
    /\ conns[k].pc = "spawned"
    /\ LET pick == RoundRobin(pool, currentServer)
       IN  /\ currentServer' = pick.cursor
           /\ \E dialOk \in BOOLEAN :
                /\ conns' = [conns EXCEPT ![k] =
                      IF dialOk
                      THEN [@ EXCEPT !.pc = "relaying", !.upstream = pick.server,
                                     !.remote = "open",
                                     !.copy = [d \in Dirs |-> "copy"]]
                      ELSE IF conns[k].client = "nil"
                      THEN [@ EXCEPT !.pc = "panic", !.upstream = pick.server]
                      ELSE [@ EXCEPT !.pc = "closed", !.upstream = pick.server,
                                     !.client = "closed"]]
                /\ exited' = (~dialOk /\ conns[k].client = "nil")
    /\ UNCHANGED <<callVars, proxyVars, lifeConf, sig, lastCall, prevCall, serverInstance, srv, listener, startPc,
                   restartPc, ops, bound, stopReturned, acceptedAfterStop,
                   dirExists, nconn>>

\* io.Copy of one direction of a balanced connection returns (EOF or an
\* error at its source) and its goroutine calls wg.Done; with the nil conn
\* of a failed Accept io.Copy calls a method of a nil interface and the
\* panic ends the process
LBCopyEnd(k, d) ==
    /\ ~exited
    /\ conns[k].pc = "relaying"
    /\ conns[k].copy[d] = "copy"
    /\ conns' = IF conns[k].client = "nil"
                THEN [conns EXCEPT ![k].pc = "panic"]
                ELSE [conns EXCEPT ![k].copy[d] = "done"]
    /\ exited' = (conns[k].client = "nil")
    /\ UNCHANGED <<callVars, proxyVars, lifeConf, sig, lastCall, prevCall, serverInstance, srv, listener, startPc,
                   restartPc, ops, bound, stopReturned, acceptedAfterStop,
                   dirExists, currentServer, nconn>>

\* wg.Wait() of ProxyTCP lets the task go on
WaitGroupDone(c) == \A d \in Dirs : c.copy[d] = "done"

\* ProxyTCP after wg.Wait: close the upstream, then the client connection
ProxyTCPClose(k) ==
    /\ ~exited
    /\ conns[k].pc = "relaying"
    /\ WaitGroupDone(conns[k])
    /\ conns' = [conns EXCEPT ![k].pc = "closed", ![k].remote = "closed",
                              ![k].client = "closed"]
    /\ UNCHANGED <<callVars, proxyVars, lifeConf, sig, lastCall, prevCall, serverInstance, srv, listener, startPc,
                   restartPc, ops, bound, stopReturned, acceptedAfterStop,
                   dirExists, exited, currentServer, nconn>>

Next ==
    \/ HttpStart
    \/ HttpStartReturn
    \/ LBStart
    \/ StopCall
    \/ RestartCall
    \/ RestartServe
    \/ DestroyCall
    \/ Signal
    \/ SignalShutdown
    \/ HttpAccept
    \/ LBAccept
    \/ \E k \in 1..MaxConn : ProxyTCPDial(k)
    \/ \E k \in 1..MaxConn, d \in Dirs : LBCopyEnd(k, d)
    \/ \E k \in 1..MaxConn : ProxyTCPClose(k)

Spec == Init /\ [][Next]_vars

\* the scheduler runs the signal goroutine once a signal is in its channel
FairSpec == Spec /\ WF_vars(SignalShutdown)

\* ---------------------------------------------------------------------
\* helpers and setup functions applied on their own

\* the algorithm tags declared in the constant package
AlgorithmTags ==
    {"round_robin", "least_connections", "least_response_time", "hashing",
     "weighted_round_robin", "weighted_least_connections",
     "weighted_least_response_time", "random", "resource_based",
     "geographical"}

\* PickAlgorithm whose default case selects nothing
PickAlgorithm_NoDefault(Algorithm) ==
    CASE Algorithm = "round_robin" -> "RoundRobin"
      [] Algorithm = "least_connections" -> "LeastConnection"
      [] Algorithm = "least_response_time" -> "LeastResponse"
      [] Algorithm = "hashing" -> "Hash"
      [] Algorithm = "weighted_round_robin" -> "WeightedRoundRobin"
      [] Algorithm = "weighted_least_connections" -> "WeightedLeastConnection"
      [] Algorithm = "weighted_least_response_time" -> "WeightedLeastResponse"
      [] Algorithm = "resource_based" -> "ResourceBased"
      [] Algorithm = "geographical" -> "Geographical"
      [] OTHER -> "nil"

\* JinxLoadBalancingServer.PickAlgorithm: the name of the function of
\* package algo that the switch on the configured tag returns
PickAlgorithm(Algorithm) ==
    CASE Algorithm = "round_robin" -> "RoundRobin"
      [] Algorithm = "least_connections" -> "LeastConnection"
      [] Algorithm = "least_response_time" -> "LeastResponse"
      [] Algorithm = "hashing" -> "Hash"
      [] Algorithm = "weighted_round_robin" -> "WeightedRoundRobin"
      [] Algorithm = "weighted_least_connections" -> "WeightedLeastConnection"
      [] Algorithm = "weighted_least_response_time" -> "WeightedLeastResponse"
      [] Algorithm = "resource_based" -> "ResourceBased"
      [] Algorithm = "geographical" -> "Geographical"
      [] OTHER -> "RoundRobin"

\* ValidatePort without the upper limit
ValidatePort_NoUpper(port) == ~(port < 1)

\* helper.ValidatePort: TRUE when the error it returns is nil
ValidatePort(port) == ~(port < 1 \/ port > 65535)

\* the steps of HTTPServerSetup that can fail on the file system or the
\* network, in the order of the code
SetupSteps ==
    {"webRootDir", "certFile", "keyFile", "logRoot",
     "defaultWebsiteRoot", "imagesDir", "resources"}

\* http_server_setup.HTTPServerSetup, given the configured port and the set
\* of steps that fail: the server and the error it returns
HTTPServerSetup(Port, failing) ==
    IF "webRootDir" \in failing
    THEN [server |-> "nil", err |-> "INVALID_WEBSITE_DIR"]
    ELSE IF ~ValidatePort(Port)
    THEN [server |-> "nil", err |-> "INVALID_PORT"]
    ELSE IF "certFile" \in failing
    THEN [server |-> "nil", err |-> "INVALID_CERT_PATH"]
    ELSE IF "keyFile" \in failing
    THEN [server |-> "nil", err |-> "INVALID_KEY_PATH"]
    ELSE IF {"logRoot", "defaultWebsiteRoot", "imagesDir"} \cap failing # {}
    THEN [server |-> "nil", err |-> "ERR_CREATE_DIR"]
    ELSE IF "resources" \in failing
    THEN [server |-> "nil", err |-> "nil"]
    ELSE [server |-> "jinx", err |-> "nil"]

\* filepath.Ext: the suffix of path that starts at the last "." of its last
\* element, empty when that element has no "."
Ext(path) ==
    LET RECURSIVE ExtFrom(_)
        ExtFrom(i) ==
            IF i = 0 \/ path[i] = "/" THEN <<>>
            ELSE IF path[i] = "." THEN SubSeq(path, i, Len(path))
            ELSE ExtFrom(i - 1)
    IN  ExtFrom(Len(path))

\* ValidateRouteTablePath without the test of the extension
ValidateRouteTablePath_NoExt(path, files) ==
    IF path \notin files THEN "ENOENT" ELSE "nil"

\* ValidateRouteTablePath, files being the paths os.Stat finds: the error
\* it returns
ValidateRouteTablePath(path, files) ==
    IF path \notin files THEN "ENOENT"
    ELSE IF Ext(path) # <<".", "j", "s", "o", "n">> THEN "ErrInvalid"
    ELSE "nil"

\* reverse_proxy_server_setup.ReverseProxyServerSetup, given the steps that
\* fail and the paths that exist: the server and the error it returns
ReverseProxyServerSetup(config, failing, files) ==
    IF "logRoot" \in failing
    THEN [server |-> "nil", err |-> "ERR_CREATE_DIR"]
    ELSE IF ~ValidatePort(config.Port)
    THEN [server |-> "nil", err |-> "INVALID_PORT"]
    ELSE IF "certFile" \in failing
    THEN [server |-> "nil", err |-> "INVALID_CERT_PATH"]
    ELSE IF "keyFile" \in failing
    THEN [server |-> "nil", err |-> "INVALID_KEY_PATH"]
    ELSE IF config.RoutingTable = <<>>
    THEN [server |-> "nil", err |-> "ERR_INVALID_ROUTE_TABLE"]
    ELSE IF ValidateRouteTablePath(config.RoutingTable, files) # "nil"
    THEN [server |-> "nil", err |-> "ERR_INVALID_ROUTE_TABLE"]
    ELSE IF "LoadRouteTable" \in failing
    THEN [server |-> "nil", err |-> "ERR_INVALID_ROUTE_TABLE"]
    ELSE [server |-> "jinx", err |-> "nil"]

\* load_balancing_server_setup.LoadBalancingServerSetup, decoded being the
\* number of upstreams in the pool file: the server, the error, and the pool
\* of the engine it constructs
LoadBalancingServerSetup(config, failing, decoded) ==
    IF "logRoot" \in failing
    THEN [server |-> "nil", err |-> "ERR_CREATE_DIR", ServerPool |-> <<>>]
    ELSE IF ~ValidatePort(config.Port)
    THEN [server |-> "nil", err |-> "INVALID_PORT", ServerPool |-> <<>>]
    ELSE IF "certFile" \in failing
    THEN [server |-> "nil", err |-> "INVALID_CERT_PATH", ServerPool |-> <<>>]
    ELSE IF "keyFile" \in failing
    THEN [server |-> "nil", err |-> "INVALID_KEY_PATH", ServerPool |-> <<>>]
    ELSE IF \/ config.ServerPoolConfigPath = <<>>
            \/ "ValidateServerPoolConfigPath" \in failing
            \/ "LoadServerPoolConfig" \in failing
    THEN [server |-> "nil", err |-> "ERR_INVALID_SERVER_POOL_CONFIG",
          ServerPool |-> <<>>]
    ELSE [server |-> "jinx", err |-> "nil", ServerPool |-> ServerPool(decoded)]

\* ValidateBlackListPath: the error it returns
ValidateBlackListPath(path, files) ==
    IF path \notin files THEN "ENOENT"
    ELSE IF Ext(path) # <<".", "t", "x", "t">> THEN "ErrInvalid"
    ELSE "nil"

\* forward_proxy_server_setup.ForwardProxyServerSetup that returns the
\* server and an error, lines being the lines of the blacklist file
ForwardProxyServerSetup(config, failing, files, lines) ==
    IF "logRoot" \in failing
    THEN [server |-> "nil", err |-> "ERR_CREATE_DIR", BlackList |-> <<>>]
    ELSE IF ~ValidatePort(config.Port)
    THEN [server |-> "nil", err |-> "INVALID_PORT", BlackList |-> <<>>]
    ELSE IF "certFile" \in failing
    THEN [server |-> "nil", err |-> "INVALID_CERT_PATH", BlackList |-> <<>>]
    ELSE IF "keyFile" \in failing
    THEN [server |-> "nil", err |-> "INVALID_KEY_PATH", BlackList |-> <<>>]
    ELSE IF config.BlackList # <<>>
    THEN IF \/ ValidateBlackListPath(config.BlackList, files) # "nil"
            \/ "LoadBlackList" \in failing
         THEN [server |-> "nil", err |-> "ERR_INVALID_BLACK_LIST",
               BlackList |-> <<>>]
         ELSE [server |-> "jinx", err |-> "nil", BlackList |-> lines]
    ELSE [server |-> "jinx", err |-> "nil", BlackList |-> <<>>]

\* ForwardProxyServerSetup of forward_proxy_server_setup.go, which returns
\* nothing: a failure ends the process with log.Fatalf (err "fatal"), and
\* otherwise the engine is constructed and started. The blacklist is
\* validated and loaded in the branch blackListPath == ""
ForwardProxyServerSetupFatal(config, failing, files, lines) ==
    IF \/ "logRoot" \in failing
       \/ ~ValidatePort(config.Port)
       \/ "certFile" \in failing
       \/ "keyFile" \in failing
    THEN [server |-> "nil", err |-> "fatal", BlackList |-> <<>>]
    ELSE IF config.BlackList = <<>>
    THEN IF \/ ValidateBlackListPath(config.BlackList, files) # "nil"
            \/ "LoadBlackList" \in failing
         THEN [server |-> "nil", err |-> "fatal", BlackList |-> <<>>]
         ELSE [server |-> "jinx", err |-> "nil", BlackList |-> lines]
    ELSE [server |-> "jinx", err |-> "nil", BlackList |-> <<>>]

\* HandleStop, HandleRestart and HandleDestroy of the command handler whose
\* package variable server holds the engine: a method call on the nil
\* interface value is a run-time panic
HandleStop(server) ==
    IF server = "nil" THEN [panic |-> TRUE, called |-> "none"]
    ELSE [panic |-> FALSE, called |-> "Stop"]

HandleRestart(server) ==
    IF server = "nil" THEN [panic |-> TRUE, called |-> "none"]
    ELSE [panic |-> FALSE, called |-> "Restart"]

HandleDestroy(server) ==
    IF server = "nil" THEN [panic |-> TRUE, called |-> "none"]
    ELSE [panic |-> FALSE, called |-> "Destroy"]

\* main: the switch on the first command-line argument, start excepted
main(command, server) ==
    CASE command = "stop" -> HandleStop(server)
      [] command = "restart" -> HandleRestart(server)
      [] command = "destroy" -> HandleDestroy(server)
      [] command = "version" -> [panic |-> FALSE, called |-> "Printf"]
      [] OTHER -> [panic |-> FALSE, called |-> "Fatalf"]

\* the base paths and request paths SingleJoiningSlash is applied to
JoinBases ==
    {<<>>, P_root, <<"b">>, <<"b", "/">>, <<"b", "/", "/">>,
     <<"/", "v", "1">>, <<"/", "v", "1", "/">>}

JoinPaths == {<<>>, P_root, <<"p">>, <<"/", "p">>, <<"/", "/", "p">>}

\* the values of the cursor parameter, an int
Cursors == (0 - (MaxPool + 1))..MaxPool

InitHelper ==
    /\ \/ \E base \in JoinBases, path \in JoinPaths :
            call = [fn |-> "SingleJoiningSlash", pc |-> "ready",
                    in |-> [base |-> base, path |-> path], out |-> <<>>]
       \/ \E n \in 1..MaxPool, currentServerIn \in Cursors :
            call = [fn |-> "RoundRobin", pc |-> "ready",
                    in |-> [servers |-> ServerPool(n),
                            currentServer |-> currentServerIn],
                    out |-> [server |-> NoUpStream, cursor |-> 0,
                             panic |-> FALSE]]
       \/ \E tag \in AlgorithmTags \cup {"", "bogus", "ROUND_ROBIN"} :
            call = [fn |-> "PickAlgorithm", pc |-> "ready",
                    in |-> [Algorithm |-> tag], out |-> "nil"]
       \/ \E Port \in {-1, 0, 1, 8080, 65535, 65536},
             failing \in SUBSET SetupSteps :
            call = [fn |-> "HTTPServerSetup", pc |-> "ready",
                    in |-> [Port |-> Port, failing |-> failing],
                    out |-> [server |-> "nil", err |-> "nil"]]
       \/ \E Port \in {-1, 0, 1, 8080, 65535, 65536},
             RoutingTable \in {<<>>, <<"r", ".", "j", "s", "o", "n">>,
                               <<"r", ".", "t", "x", "t">>, <<"r">>,
                               <<"d", ".", "j", "s", "o", "n", "/", "r">>},
             files \in SUBSET {<<"r", ".", "j", "s", "o", "n">>,
                               <<"r", ".", "t", "x", "t">>,
                               <<"d", ".", "j", "s", "o", "n", "/", "r">>},
             failing \in SUBSET {"logRoot", "certFile", "keyFile",
                                 "LoadRouteTable"} :
            call = [fn |-> "ReverseProxyServerSetup", pc |-> "ready",
                    in |-> [Port |-> Port, RoutingTable |-> RoutingTable,
                            files |-> files, failing |-> failing],
                    out |-> [server |-> "nil", err |-> "nil"]]
       \/ \E Port \in {-1, 0, 1, 8080, 65535, 65536},
             ServerPoolConfigPath \in {<<>>, <<"p", ".", "j", "s", "o", "n">>},
             decoded \in 0..MaxPool,
             failing \in SUBSET {"logRoot", "certFile", "keyFile",
                                 "ValidateServerPoolConfigPath",
                                 "LoadServerPoolConfig"} :
            call = [fn |-> "LoadBalancingServerSetup", pc |-> "ready",
                    in |-> [Port |-> Port,
                            ServerPoolConfigPath |-> ServerPoolConfigPath,
                            decoded |-> decoded, failing |-> failing],
                    out |-> [server |-> "nil", err |-> "nil",
                             ServerPool |-> <<>>]]
       \/ \E Port \in {-1, 0, 1, 8080, 65535, 65536},
             BlackList \in {<<>>, <<"b", ".", "t", "x", "t">>,
                            <<"b", ".", "j", "s", "o", "n">>},
             files \in SUBSET {<<"b", ".", "t", "x", "t">>,
                               <<"b", ".", "j", "s", "o", "n">>},
             lines \in BlackLists,
             failing \in SUBSET {"logRoot", "certFile", "keyFile",
                                 "LoadBlackList"} :
            call = [fn |-> "ForwardProxyServerSetup", pc |-> "ready",
                    in |-> [Port |-> Port, BlackList |-> BlackList,
                            files |-> files, lines |-> lines,
                            failing |-> failing],
                    out |-> [server |-> "nil", err |-> "nil",
                             BlackList |-> <<>>]]
       \/ \E Port \in {0, 8080},
             BlackList \in {<<>>, <<"b", ".", "t", "x", "t">>,
                            <<"b", ".", "j", "s", "o", "n">>},
             files \in SUBSET {<<"b", ".", "t", "x", "t">>,
                               <<"b", ".", "j", "s", "o", "n">>},
             lines \in BlackLists,
             failing \in SUBSET {"logRoot", "certFile", "keyFile",
                                 "LoadBlackList"} :
            call = [fn |-> "ForwardProxyServerSetupFatal", pc |-> "ready",
                    in |-> [Port |-> Port, BlackList |-> BlackList,
                            files |-> files, lines |-> lines,
                            failing |-> failing],
                    out |-> [server |-> "nil", err |-> "nil",
                             BlackList |-> <<>>]]
       \/ \E command \in {"stop", "restart", "destroy", "version", "bogus"} :
            call = [fn |-> "main", pc |-> "ready",
                    in |-> [command |-> command, server |-> "nil"],
                    out |-> [panic |-> FALSE, called |-> "none"]]
    /\ fetch = NoFetch
    /\ kind = "lb"
    /\ tls = FALSE
    /\ pool = ServerPool(1)
    /\ LifeAtRest
    /\ engine = "http"
    /\ routeTable = [k \in {P_a} |-> U_u]
    /\ blackList = <<>>
    /\ fsDirs = {}
    /\ fsFiles = {}
    /\ req = NoReq
    /\ nreq = 0

ApplySingleJoiningSlash ==
    /\ call.fn = "SingleJoiningSlash"
    /\ call.pc = "ready"
    /\ call' = [call EXCEPT !.pc = "done",
                            !.out = SingleJoiningSlash(call.in.base, call.in.path)]
    /\ UNCHANGED <<fetch, proxyVars, lifeVars>>

ApplyRoundRobin ==
    /\ call.fn = "RoundRobin"
    /\ call.pc = "ready"
    /\ call' = [call EXCEPT !.pc = "done",
                            !.out = RoundRobin(call.in.servers, call.in.currentServer)]
    /\ UNCHANGED <<fetch, proxyVars, lifeVars>>

ApplyPickAlgorithm ==
    /\ call.fn = "PickAlgorithm"
    /\ call.pc = "ready"
    /\ call' = [call EXCEPT !.pc = "done",
                            !.out = PickAlgorithm(call.in.Algorithm)]
    /\ UNCHANGED <<fetch, proxyVars, lifeVars>>

ApplyHTTPServerSetup ==
    /\ call.fn = "HTTPServerSetup"
    /\ call.pc = "ready"
    /\ call' = [call EXCEPT !.pc = "done",
                            !.out = HTTPServerSetup(call.in.Port, call.in.failing)]
    /\ UNCHANGED <<fetch, proxyVars, lifeVars>>

ApplyReverseProxyServerSetup ==
    /\ call.fn = "ReverseProxyServerSetup"
    /\ call.pc = "ready"
    /\ call' = [call EXCEPT !.pc = "done",
                            !.out = ReverseProxyServerSetup(call.in,
                                        call.in.failing, call.in.files)]
    /\ UNCHANGED <<fetch, proxyVars, lifeVars>>

ApplyLoadBalancingServerSetup ==
    /\ call.fn = "LoadBalancingServerSetup"
    /\ call.pc = "ready"
    /\ call' = [call EXCEPT !.pc = "done",
                            !.out = LoadBalancingServerSetup(call.in,
                                        call.in.failing, call.in.decoded)]
    /\ UNCHANGED <<fetch, proxyVars, lifeVars>>

ApplyForwardProxyServerSetup ==
    /\ call.fn = "ForwardProxyServerSetup"
    /\ call.pc = "ready"
    /\ call' = [call EXCEPT !.pc = "done",
                            !.out = ForwardProxyServerSetup(call.in,
                                        call.in.failing, call.in.files,
                                        call.in.lines)]
    /\ UNCHANGED <<fetch, proxyVars, lifeVars>>

ApplyForwardProxyServerSetupFatal ==
    /\ call.fn = "ForwardProxyServerSetupFatal"
    /\ call.pc = "ready"
    /\ call' = [call EXCEPT !.pc = "done",
                            !.out = ForwardProxyServerSetupFatal(call.in,
                                        call.in.failing, call.in.files,
                                        call.in.lines)]
    /\ UNCHANGED <<fetch, proxyVars, lifeVars>>

\* the first selection of the engine that LoadBalancingServerSetup has
\* constructed: ProxyTCP calls the algorithm on the configured pool with
\* the cursor -1 of the constructor
ApplyProxyTCPSelection ==
    /\ call.fn = "LoadBalancingServerSetup"
    /\ call.pc = "done"
    /\ call.out.server = "jinx"
    /\ call' = [call EXCEPT !.pc = "selected",
                            !.out = [server |-> "jinx", err |-> "nil",
                                     ServerPool |-> call.out.ServerPool,
                                     selection |-> RoundRobin(call.out.ServerPool, -1)]]
    /\ UNCHANGED <<fetch, proxyVars, lifeVars>>

\* one run of the command-line program with no engine in the process
ApplyMain ==
    /\ call.fn = "main"
    /\ call.pc = "ready"
    /\ call' = [call EXCEPT !.pc = "done",
                            !.out = main(call.in.command, call.in.server)]
    /\ UNCHANGED <<fetch, proxyVars, lifeVars>>

NextHelper ==
    \/ ApplySingleJoiningSlash
    \/ ApplyRoundRobin
    \/ ApplyPickAlgorithm
    \/ ApplyHTTPServerSetup
    \/ ApplyReverseProxyServerSetup
    \/ ApplyLoadBalancingServerSetup
    \/ ApplyForwardProxyServerSetup
    \/ ApplyForwardProxyServerSetupFatal
    \/ ApplyProxyTCPSelection
    \/ ApplyMain

SpecHelper == InitHelper /\ [][NextHelper]_vars

\* ---------------------------------------------------------------------
\* HandleFetchResources: one goroutine per resource, a buffered error
\* channel, a WaitGroup, a goroutine that closes the channel

\* what happens to a resource: everything succeeds, or os.OpenFile,
\* FetchResource or WriteResponseToFile fails
FetchOutcomes == {"ok", "open", "fetch", "write"}

\* the per-resource goroutine that does not report a failed write
FetchGoroutine_DropWriteErr(pc, outcome) ==
    CASE pc = "open" -> IF outcome = "open" THEN "send" ELSE "fetch"
      [] pc = "fetch" -> IF outcome = "fetch" THEN "send" ELSE "write"
      [] OTHER -> "exit"

\* the per-resource goroutine: where it goes after the call at pc
FetchGoroutine(pc, outcome) ==
    CASE pc = "open" -> IF outcome = "open" THEN "send" ELSE "fetch"
      [] pc = "fetch" -> IF outcome = "fetch" THEN "send" ELSE "write"
      [] OTHER -> IF outcome = "write" THEN "send" ELSE "exit"

InitFetch ==
    /\ \E n \in 0..MaxResources : \E outcome \in [1..n -> FetchOutcomes] :
         fetch = [pc |-> "called", resources |-> outcome,
                  g |-> [i \in 1..n |-> "none"], closer |-> "none",
                  errChan |-> <<>>, cap |-> 0, closes |-> 0, wg |-> 0,
                  anyErrors |-> <<>>]
    /\ call = NoCall
    /\ kind = "http"
    /\ tls = FALSE
    /\ pool = ServerPool(1)
    /\ LifeAtRest
    /\ engine = "http"
    /\ routeTable = [k \in {P_a} |-> U_u]
    /\ blackList = <<>>
    /\ fsDirs = {}
    /\ fsFiles = {}
    /\ req = NoReq
    /\ nreq = 0

\* make(chan error, len(resources)), wg.Add, the go statements
FetchSpawn ==
    /\ fetch.pc = "called"
    /\ fetch' = [fetch EXCEPT !.pc = "ranging",
                              !.cap = Len(fetch.resources),
                              !.wg = Len(fetch.resources),
                              !.g = [i \in DOMAIN fetch.g |-> "open"],
                              !.closer = "waiting"]
    /\ UNCHANGED <<call, proxyVars, lifeVars>>

\* goroutine i runs os.OpenFile, FetchResource or WriteResponseToFile
FetchStep(i) ==
    /\ fetch.g[i] \in {"open", "fetch", "write"}
    /\ fetch' = [fetch EXCEPT !.g[i] = FetchGoroutine(@, fetch.resources[i])]
    /\ UNCHANGED <<call, proxyVars, lifeVars>>

\* errChan <- err: possible while the buffer has room
FetchSend(i) ==
    /\ fetch.g[i] = "send"
    /\ Len(fetch.errChan) < fetch.cap
    /\ fetch' = [fetch EXCEPT !.g[i] = "exit", !.errChan = Append(@, i)]
    /\ UNCHANGED <<call, proxyVars, lifeVars>>

\* the deferred wg.Done()
FetchDone(i) ==
    /\ fetch.g[i] = "exit"
    /\ fetch' = [fetch EXCEPT !.g[i] = "done", !.wg = @ - 1]
    /\ UNCHANGED <<call, proxyVars, lifeVars>>

\* wg.Wait() returns, close(errChan)
FetchClose ==
    /\ fetch.pc # "none"
    /\ fetch.closer = "waiting"
    /\ fetch.wg = 0
    /\ fetch' = [fetch EXCEPT !.closer = "done", !.closes = @ + 1]
    /\ UNCHANGED <<call, proxyVars, lifeVars>>

\* one turn of for err := range errChan
FetchReceive ==
    /\ fetch.pc = "ranging"
    /\ fetch.errChan # <<>>
    /\ fetch' = [fetch EXCEPT !.anyErrors = Append(@, Head(fetch.errChan)),
                              !.errChan = Tail(@)]
    /\ UNCHANGED <<call, proxyVars, lifeVars>>

\* the range ends on the closed and drained channel; return anyErrors
FetchReturn ==
    /\ fetch.pc = "ranging"
    /\ fetch.errChan = <<>>
    /\ fetch.closes > 0
    /\ fetch' = [fetch EXCEPT !.pc = "returned"]
    /\ UNCHANGED <<call, proxyVars, lifeVars>>

NextFetch ==
    \/ FetchSpawn
    \/ \E i \in 1..MaxResources : i \in DOMAIN fetch.g /\ FetchStep(i)
    \/ \E i \in 1..MaxResources : i \in DOMAIN fetch.g /\ FetchSend(i)
    \/ \E i \in 1..MaxResources : i \in DOMAIN fetch.g /\ FetchDone(i)
    \/ FetchClose
    \/ FetchReceive
    \/ FetchReturn

SpecFetch == InitFetch /\ [][NextFetch]_vars

\* every goroutine that can run is run
FairSpecFetch == SpecFetch /\ WF_vars(NextFetch)

(***************************************************************************)
(* Properties                                                              *)
(***************************************************************************)

Handled == req.st \in {"handling", "returned"}

\* C1: with round_robin and the cursor starting at -1, the k-th connection
\* handled by the load balancer is relayed to pool[(k-1) mod n]
RoundRobinRotates ==
    \A k \in 1..MaxConn :
        conns[k].upstream # NoUpStream
            => conns[k].upstream = pool[((k - 1) % Len(pool)) + 1]

\* C2: once Stop has returned on an engine whose Start has bound the
\* listener, no connection is accepted any more
NoAcceptAfterStop == ~acceptedAfterStop

\* C3: once the serving goroutine launched by Restart has run, the engine
\* accepts connections on the bind address again
RestartServesAgain == (restartPc = "ran" /\ ~exited) => CanAccept

TunnelStarted == "tunnel" \in req.performed

RelayReleased ==
    /\ req.client = "closed"
    /\ req.dest = "closed"
    /\ \A d \in Dirs : req.cp[d] = "done"

\* C4: in a CONNECT tunnel whose relay has started, once either direction
\* sees EOF or an error, both connections are eventually closed and both
\* copiers terminate
TunnelReleasedOnEnd ==
    (TunnelStarted /\ \E d \in Dirs : req.ended[d]) ~> RelayReleased

TunnelReleasedWitness ==
    /\ TunnelStarted
    /\ \E d \in Dirs : req.ended[d] /\ ~req.ended[IF d = "c2d" THEN "d2c" ELSE "c2d"]
    /\ RelayReleased

\* C5: in the WebSocket relay, after the upstream's response has been
\* written to the client, both connections stay open until a direction sees
\* EOF or an error; the return of the request handler does not close them
WebSocketStaysOpen ==
    ("ws" \in req.performed /\ \A d \in Dirs : ~req.ended[d])
        => (req.client = "open" /\ req.dest = "open")

\* C6: on a balanced connection, when either copy direction has ended the
\* relay goes on to close both connections without waiting for the other
\* direction to end on its own
LBRelayEndsOnFirstEOF ==
    \A k \in 1..MaxConn :
        (conns[k].pc = "relaying" /\ \E d \in Dirs : conns[k].copy[d] = "done")
            => ENABLED ProxyTCPClose(k)

\* position of the last ":" of a host, 0 when it has none
RECURSIVE LastColon(_, _)
LastColon(h, i) ==
    IF i = 0 THEN 0 ELSE IF h[i] = ":" THEN i ELSE LastColon(h, i - 1)

Digits == {"0", "1", "2", "3", "4", "5", "6", "7", "8", "9"}

\* a request Host with its ":port" suffix removed
HostWithoutPort(h) ==
    LET i == LastColon(h, Len(h))
    IN  IF i > 0 /\ i < Len(h) /\ \A j \in (i + 1)..Len(h) : h[j] \in Digits
        THEN SubSeq(h, 1, i - 1)
        ELSE h

\* C7: the forward proxy answers 403 "<host> has been blacklisted", dials
\* nothing and forwards nothing exactly when the Host without its port
\* suffix is in the blacklist
BlacklistedHostRefused ==
    (engine = "forward" /\ Handled) =>
        LET h == HostWithoutPort(req.host)
        IN  IF InList(blackList, h)
            THEN /\ req.status = 403
                 /\ req.body = [arg |-> h, text |-> "has been blacklisted"]
                 /\ req.dialed = <<>>
                 /\ ~req.upstreamReq.sent
                 /\ req.performed = {"403"}
            ELSE req.status # 403

\* C8: the reverse proxy looks the cleaned request path up by exact match:
\* a path whose cleaned form is not a key is answered 404 "<path> does not
\* exist in route table" and starts no tunnel, relay or upstream request,
\* and a path whose cleaned form is a key is not answered with that 404
RouteMissAnswered404 ==
    (engine = "reverse" /\ Handled) =>
        LET p == Clean(req.path)
        IN  IF p \notin DOMAIN routeTable
            THEN /\ req.status = 404
                 /\ req.body = [arg |-> p, text |-> "does not exist in route table:"]
                 /\ req.performed = {"404"}
                 /\ req.client = "none" /\ req.dest = "none"
                 /\ req.dialed = <<>>
                 /\ ~req.upstreamReq.sent
                 /\ \A d \in Dirs : req.cp[d] = "none"
            ELSE "404" \notin req.performed /\ req.status # 404

RouteMissWitness ==
    /\ engine = "reverse"
    /\ req.st = "returned"
    /\ P_a \in DOMAIN routeTable
    /\ req.path = P_b
    /\ req.status = 404

ApiTable == [k \in {P_api} |-> U_u_v1]

\* a plain GET with query id=5 handled by the reverse proxy under the
\* route table {"/api": "http://u/v1/"}
ApiRequest(p) ==
    /\ engine = "reverse"
    /\ routeTable = ApiTable
    /\ Handled
    /\ req.method = "GET"
    /\ ~IsWebSocketUpgrade(req)
    /\ req.path = p
    /\ req.query = Q_id5

\* C9 as claimed: under {"/api": "http://u/v1/"}, GET /api/users?id=5 is
\* forwarded and the upstream receives GET /v1/users?id=5 with Host u
ApiUsersForwarded ==
    ApiRequest(P_api_users) =>
        req.upstreamReq = [sent |-> TRUE, Scheme |-> <<"h", "t", "t", "p">>,
                           Host |-> H_u, HostHeader |-> H_u,
                           Path |-> P_v1_users, Query |-> Q_id5]

\* C9 as amended: under {"/api": "http://u/v1/"}, GET /api/users?id=5 is
\* answered 404 and nothing is forwarded, and GET /api?id=5 is forwarded
\* as GET /v1/api?id=5 with Host u
ApiExactMatchOnly ==
    /\ ApiRequest(P_api_users) =>
          /\ req.status = 404
          /\ req.body.arg = P_api_users
          /\ ~req.upstreamReq.sent
    /\ ApiRequest(P_api) =>
          req.upstreamReq = [sent |-> TRUE, Scheme |-> <<"h", "t", "t", "p">>,
                             Host |-> H_u, HostHeader |-> H_u,
                             Path |-> P_v1_api, Query |-> Q_id5]

ApiUsersWitness == ApiRequest(P_api_users) /\ req.st = "returned"

SevenOutcomes == {"static", "reverse", "forward", "tunnel", "ws", "403", "404"}

HandshakeFailures == {"hijacker", "hijack", "dial", "writeReq", "readResp", "writeResp"}

DestroyRemovesWorkingDir ==
    (lastCall = "Destroy" /\ startPc # "idle" /\ ~exited)
        => (~dirExists /\ ~CanAccept)

\* C12: Start returns to its caller while the engine it has bound is
\* serving: at the step in which Start returns, the listener accepts
StartReturnsWhileServing ==
    [][(startPc # "returned" /\ startPc' = "returned" /\ bound')
          => CanAccept']_vars

\* C13: a signal delivered after Start is taken by the engine's handler,
\* never by the runtime's default action, and leads to the graceful
\* shutdown of the engine's listener, after which nothing is accepted
SignalShutsDownGracefully ==
    /\ [](sig # "killed")
    /\ (sig # "none") ~> (sig = "shutdown" /\ ~CanAccept)

\* everything of the engine a lifecycle method can act on
EngineState == <<serverInstance, srv, listener, startPc, restartPc, bound,
                 dirExists, exited, sig, currentServer, conns, nconn>>

\* C14: a Stop that follows a Stop leaves the engine as the first one left
\* it, a Stop on an engine that was never started changes nothing, and
\* after any Stop one more Stop would change nothing
StopIdempotent ==
    [][StopCall =>
          /\ Stop(srv') = srv'
          /\ (lastCall = "Stop" \/ startPc = "idle") => EngineState' = EngineState
          /\ startPc = "idle" => ~srv'.inShutdown]_vars

StopTwiceWitness ==
    /\ lastCall = "Stop"
    /\ prevCall = "Stop"
    /\ serverInstance = "set"
    /\ bound
    /\ srv.inShutdown

\* C15: Restart and Destroy on an engine that was never started attempt no
\* shutdown, launch no serving goroutine and leave the working directory
RestartDestroyNoOpBeforeStart ==
    [][(startPc = "idle" /\ (RestartCall \/ DestroyCall))
          => (EngineState' = EngineState /\ ~srv'.inShutdown
              /\ restartPc' = "none" /\ dirExists')]_vars

RestartDestroyBeforeStartWitness ==
    /\ startPc = "idle"
    /\ lastCall = "Destroy"
    /\ prevCall = "Restart"
    /\ dirExists
    /\ restartPc = "none"
    /\ ~srv.inShutdown

\* the copiers of the current relay that have run Transfer to its end
CopiersDone == {d \in Dirs : req.cp[d] = "done"}

RelayOver == req.st = "returned" /\ CopiersDone = Dirs

\* C16 as claimed: when a CONNECT or WebSocket relay is over, Close has been
\* called exactly once on the client and exactly once on the upstream
\* connection
EachEndpointClosedOnce ==
    RelayOver => (req.closes.client = 1 /\ req.closes.dest = 1)

\* C16 as amended: every copier closes both endpoints when its copy ends, so
\* in a CONNECT tunnel each endpoint has been closed once per finished
\* copier (twice when the relay is over), and in a WebSocket relay once more
\* by the handler's deferred close; both endpoints are closed as soon as
\* one copier has finished
EachCopierClosesBoth ==
    LET n == Cardinality(CopiersDone)
        deferred == IF "ws" \in req.performed /\ req.st = "returned" THEN 1 ELSE 0
    IN  req.performed \cap {"tunnel", "ws"} # {} =>
            /\ req.closes.client = n + deferred
            /\ req.closes.dest = n + deferred
            /\ n > 0 => (req.client = "closed" /\ req.dest = "closed")

TunnelClosedTwiceWitness ==
    /\ RelayOver
    /\ req.performed = {"tunnel"}
    /\ req.closes = [client |-> 2, dest |-> 2]

RECURSIVE AllBytes(_)
AllBytes(w) == w = <<>> \/ (Head(w) = "byte" /\ AllBytes(Tail(w)))

\* C17: in a CONNECT tunnel the handler hijacks, dials the request's Host,
\* writes the 200 line and starts the copiers, in this order: whatever the
\* client has been sent starts with exactly the 200 line, written once and
\* only with the upstream connection dialed, and relayed bytes follow it
TunnelStepsInOrder ==
    "tunnel" \in req.branches =>
        /\ req.clientWrites # <<>> =>
              /\ Head(req.clientWrites) = ConnectionEstablished
              /\ AllBytes(Tail(req.clientWrites))
              /\ req.dest # "none"
              /\ req.dialed = <<req.host>>
              /\ req.fail = "none"
        /\ (\E d \in Dirs : req.cp[d] # "none") =>
              /\ req.steps = <<"hijack", "dial", "200", "copiers">>
              /\ req.clientWrites # <<>>
        /\ req.relayed["d2c"] = Len(req.clientWrites) - 1
              \/ (req.clientWrites = <<>> /\ req.relayed["d2c"] = 0)

TunnelRelayedByteWitness ==
    /\ req.performed = {"tunnel"}
    /\ req.clientWrites = <<ConnectionEstablished, "byte">>
    /\ req.dialed = <<req.host>>

\* C18: when the dial of a CONNECT tunnel fails, the hijacked client
\* connection is closed, nothing has been written to it and no copier runs
TunnelDialFailureClosesClient ==
    ("tunnel" \in req.branches /\ req.fail = "dial") =>
        /\ req.client = "closed"
        /\ req.closes.client = 1
        /\ req.clientWrites = <<>>
        /\ req.status = 0
        /\ req.dest = "none"
        /\ \A d \in Dirs : req.cp[d] = "none"

TunnelDialFailureWitness ==
    /\ req.st = "handling"
    /\ req.method = "CONNECT"
    /\ req.steps = <<"hijack", "dial", "close">>
    /\ req.client = "closed"

\* C19: when the WebSocket relay cannot write the upgrade request to the
\* upstream or read its response, the client is answered 500 and both
\* connections are closed
WebSocketHandshakeFailureAnswered500 ==
    (req.st = "returned" /\ "ws" \in req.branches
        /\ req.fail \in {"writeReq", "readResp"}) =>
        /\ req.status = 500
        /\ req.client = "closed"
        /\ req.dest = "closed"

\* C20: an engine whose Start could not bind its address has terminated the
\* process
BindFailureTerminates ==
    (startPc # "idle" /\ ~bound) => exited

RECURSIVE TrimSlashesRight(_)
TrimSlashesRight(t) ==
    IF t # <<>> /\ t[Len(t)] = "/" THEN TrimSlashesRight(SubSeq(t, 1, Len(t) - 1))
    ELSE t

RECURSIVE TrimSlashesLeft(_)
TrimSlashesLeft(t) ==
    IF t # <<>> /\ t[1] = "/" THEN TrimSlashesLeft(SubSeq(t, 2, Len(t))) ELSE t

TrimOneSlashRight(t) ==
    IF t # <<>> /\ t[Len(t)] = "/" THEN SubSeq(t, 1, Len(t) - 1) ELSE t

TrimOneSlashLeft(t) ==
    IF t # <<>> /\ t[1] = "/" THEN SubSeq(t, 2, Len(t)) ELSE t

Routed == engine = "reverse" /\ Handled /\ "reverse" \in req.performed

\* C21: a request that the reverse proxy routes to the upstream base URL U
\* goes out with U's scheme, with U's host (port included) as URL host and
\* as Host header, with U's base path and the incoming URL path joined by
\* one slash as path, and with the incoming query string
DirectorRewritesRequest ==
    Routed =>
        LET U == UrlParse(routeTable[Clean(req.path)])
        IN  /\ req.upstreamReq.sent
            /\ req.upstreamReq.Scheme = U.Scheme
            /\ req.upstreamReq.Host = U.Host
            /\ req.upstreamReq.HostHeader = U.Host
            /\ req.upstreamReq.Path =
                  TrimOneSlashRight(U.Path) \o <<"/">> \o TrimOneSlashLeft(req.path)
            /\ req.upstreamReq.Query = req.query

DirectorPortWitness ==
    /\ Routed
    /\ req.st = "returned"
    /\ req.path = P_b
    /\ req.query = Q_id5
    /\ req.upstreamReq.Scheme = <<"h", "t", "t", "p", "s">>
    /\ req.upstreamReq.HostHeader = <<"u", ":", "8", "4", "4", "3">>
    /\ req.upstreamReq.Path = <<"/", "v", "1", "/", "b">>

Joined == call.fn = "SingleJoiningSlash" /\ call.pc = "done"

\* C22 as claimed: SingleJoiningSlash(B, P) has exactly one "/" between B
\* without its trailing slashes and P without its leading slashes, however
\* many of them there are; it is B+P when exactly one side supplies the
\* slash, and "/" when both are empty
JoinHasOneSlashAlways ==
    Joined =>
        LET B == call.in.base
            P == call.in.path
        IN  /\ call.out = TrimSlashesRight(B) \o <<"/">> \o TrimSlashesLeft(P)
            /\ (B # <<>> /\ B[Len(B)] = "/") # (P # <<>> /\ P[1] = "/")
                  => call.out = B \o P
            /\ (B = <<>> /\ P = <<>>) => call.out = <<"/">>

\* C22 as amended: SingleJoiningSlash(B, P) is B+P with one "/" removed when
\* B ends and P begins with one, and one "/" inserted when neither does; it
\* has exactly one "/" at the junction when B has at most one trailing and P
\* at most one leading slash; it is B+P when exactly one side supplies the
\* slash, and "/" when both are empty
JoinAdjustsOneSlash ==
    Joined =>
        LET B == call.in.base
            P == call.in.path
            endsB == B # <<>> /\ B[Len(B)] = "/"
            beginsP == P # <<>> /\ P[1] = "/"
        IN  /\ call.out = TrimOneSlashRight(B) \o <<"/">> \o TrimOneSlashLeft(P)
            /\ (TrimOneSlashRight(B) = TrimSlashesRight(B)
                  /\ TrimOneSlashLeft(P) = TrimSlashesLeft(P))
                  => call.out = TrimSlashesRight(B) \o <<"/">> \o TrimSlashesLeft(P)
            /\ (endsB # beginsP) => call.out = B \o P
            /\ (B = <<>> /\ P = <<>>) => call.out = <<"/">>

JoinBothSlashesWitness ==
    /\ Joined
    /\ call.in.base = <<"/", "v", "1", "/">>
    /\ call.in.path = <<"/", "p">>
    /\ call.out = <<"/", "v", "1", "/", "p">>

\* p with x inserted after its first i characters
InsertAt(p, i, x) == SubSeq(p, 1, i) \o x \o SubSeq(p, i + 1, Len(p))

\* the variants of p with one more redundant "/", one more "./" segment or
\* one more trailing slash
Variants(p) ==
    {p \o <<"/">>}
        \cup {InsertAt(p, i, <<"/">>) : i \in {j \in 1..Len(p) : p[j] = "/"}}
        \cup {InsertAt(p, i, <<".", "/">>) : i \in {j \in 1..Len(p) : p[j] = "/"}}

SameLookup(p, v) ==
    LET a == DetermineUpstreamURL([req EXCEPT !.path = p])
        b == DetermineUpstreamURL([req EXCEPT !.path = v])
    IN  a.ok = b.ok /\ a.url = b.url

\* C23 as claimed: the route lookup gives the same result for every request
\* path p and for every variant of p with a redundant "/", a "./" segment
\* or a trailing slash more
LookupIgnoresRedundancy ==
    (engine = "reverse" /\ Handled) =>
        \A v \in Variants(req.path) : SameLookup(req.path, v)

\* C23 as amended: the route lookup gives the same result for every request
\* path p that begins with "/" and for every variant of p with a redundant
\* "/", a "./" segment or a trailing slash more; the empty path is looked up
\* as "." and the path "/" as "/"
LookupIgnoresRedundancyRooted ==
    (engine = "reverse" /\ Handled) =>
        /\ (req.path # <<>> /\ req.path[1] = "/")
              => \A v \in Variants(req.path) : SameLookup(req.path, v)
        /\ req.path = <<>>
              => DetermineUpstreamURL(req).ok = (P_dot \in DOMAIN routeTable)

LookupVariantWitness ==
    /\ engine = "reverse"
    /\ req.st = "returned"
    /\ req.path = P_a_dot
    /\ P_a \in DOMAIN routeTable
    /\ "reverse" \in req.performed
    /\ DetermineUpstreamURL([req EXCEPT !.path = P_a]).ok

Picked == call.fn = "RoundRobin" /\ call.pc = "done"

\* C24: for every non-empty pool and every value of the cursor, RoundRobin
\* computes an index in 0..len-1 and returns that element of the pool
RoundRobinReturnsPoolElement ==
    Picked =>
        /\ ~call.out.panic
        /\ \E i \in 1..Len(call.in.servers) : call.out.server = call.in.servers[i]

Selected == call.fn = "PickAlgorithm" /\ call.pc = "done"

\* C25: under the tag "random" the selection is a random index: on a pool
\* of more than one upstream every upstream is a possible result of the
\* function PickAlgorithm returns
RandomReachesEveryUpstream ==
    (Selected /\ call.in.Algorithm = "random") =>
        \A n \in 2..MaxPool :
           call.out = "RoundRobin" =>
              {RoundRobin(ServerPool(n), currentServer).server}
                 = {ServerPool(n)[i] : i \in 1..n}

\* C26: PickAlgorithm returns round-robin for the tag "round_robin" and for
\* every tag that is not one of the declared names
UnknownTagIsRoundRobin ==
    (Selected /\ (call.in.Algorithm = "round_robin"
                    \/ call.in.Algorithm \notin AlgorithmTags))
        => call.out = "RoundRobin"

UnknownTagWitness ==
    /\ Selected
    /\ call.in.Algorithm = "bogus"
    /\ call.out = "RoundRobin"

Origin == engine = "http" /\ Handled

DefaultSite == Join(<<ServerWorkingDir, DEFAULT_WEBSITE_ROOT>>)

\* the document root the origin is to choose for a Host
DocumentRoot(host) ==
    LET h == HostWithoutPort(host)
    IN  IF h \in {H_localhost, H_loopback, H_v6} THEN DefaultSite
        ELSE IF Join(<<WebsiteRoot, h>>) \in fsDirs THEN Join(<<WebsiteRoot, h>>)
        ELSE DefaultSite

OriginResolvesPath ==
    Origin =>
        LET root == ResolveFilePath(req).root
            file == Join(<<root, req.path>>)
            served(f) == req.status = 200
                           /\ req.body = [arg |-> f, text |-> "file content"]
        IN  IF req.path \in {<<>>, P_root}
            THEN Join(<<root, INDEX_FILE>>) \in fsFiles
                    => served(Join(<<root, INDEX_FILE>>))
            ELSE IF file \in fsFiles
            THEN served(file)
            ELSE /\ req.status = 404
                 /\ req.body = IF Join(<<root, NOT_FOUND>>) \in fsFiles
                               THEN [arg |-> Join(<<root, NOT_FOUND>>),
                                     text |-> "file content"]
                               ELSE [arg |-> <<>>, text |-> "404 Not Found"]

\* C29: every response of the origin, a served file and a 404 alike, has
\* the headers Cache-Control: max-age=3600 and Server: Jinx
OriginHeadersOnEveryResponse ==
    Origin => {"Cache-Control: max-age=3600", "Server: Jinx"} \subseteq req.headers

\* C30: HTTPServerSetup returns an error whenever one of its steps fails,
\* the fetch of a default-site resource included, and never a nil server
\* together with a nil error
SetupFailureIsReported ==
    (call.fn = "HTTPServerSetup" /\ call.pc = "done") =>
        /\ call.in.failing # {} => call.out.err # "nil"
        /\ ~(call.out.server = "nil" /\ call.out.err = "nil")

FetchFailed == {i \in DOMAIN fetch.resources : fetch.resources[i] # "ok"}

FetchSafe ==
    /\ \A i \in DOMAIN fetch.g :
          fetch.g[i] = "send" => Len(fetch.errChan) < fetch.cap
    /\ fetch.closes <= 1
    /\ fetch.closes = 1 => \A i \in DOMAIN fetch.g : fetch.g[i] = "done"
    /\ fetch.pc = "returned" =>
          /\ \A i \in DOMAIN fetch.g : fetch.g[i] = "done"
          /\ fetch.closes = 1
          /\ Len(fetch.anyErrors) = Cardinality(FetchFailed)
          /\ {fetch.anyErrors[k] : k \in DOMAIN fetch.anyErrors} = FetchFailed
          /\ (fetch.anyErrors = <<>>) = (FetchFailed = {})

SetupDone ==
    /\ call.fn \in {"HTTPServerSetup", "ReverseProxyServerSetup",
                    "LoadBalancingServerSetup", "ForwardProxyServerSetup"}
    /\ call.pc = "done"

\* the steps a setup function runs before it validates the port
BeforePort ==
    IF call.fn = "HTTPServerSetup" THEN {"webRootDir"} ELSE {"logRoot"}

\* C32 as stated: each engine's setup function rejects a port below 1 or
\* above 65535 with INVALID_PORT and constructs no engine, and every port
\* in 1..65535 passes the validation
InvalidPortGivesInvalidPort ==
    SetupDone =>
        /\ call.in.Port \notin 1..65535 =>
              call.out.server = "nil" /\ call.out.err = "INVALID_PORT"
        /\ call.in.Port \in 1..65535 =>
              ValidatePort(call.in.Port) /\ call.out.err # "INVALID_PORT"

\* C32 amended: a port below 1 or above 65535 makes each setup function
\* return an error and no engine, and the error is INVALID_PORT unless a
\* step before the port validation (the website root of the HTTP server,
\* the log directory of the others) has failed; every port in 1..65535
\* passes the validation
InvalidPortIsRejected ==
    SetupDone =>
        /\ call.in.Port \notin 1..65535 =>
              /\ call.out.server = "nil"
              /\ call.out.err # "nil"
              /\ (call.in.failing \cap BeforePort = {} =>
                     call.out.err = "INVALID_PORT")
        /\ call.in.Port \in 1..65535 =>
              ValidatePort(call.in.Port) /\ call.out.err # "INVALID_PORT"

InvalidPortWitness ==
    /\ call.fn = "ReverseProxyServerSetup"
    /\ call.pc = "done"
    /\ call.in.Port = 65536
    /\ call.in.failing = {}
    /\ call.out = [server |-> "nil", err |-> "INVALID_PORT"]

\* the route table path names an existing file with the extension .json
RouteTablePathGood ==
    /\ call.in.RoutingTable \in call.in.files
    /\ HasSuffix(call.in.RoutingTable, <<".", "j", "s", "o", "n">>)

\* C33: ValidateRouteTablePath returns nil only for an existing file whose
\* extension is .json, os.ErrInvalid for an existing file with another
\* extension, an error for a missing file and for the empty path; in each
\* rejected case ReverseProxyServerSetup returns an error and no engine
RouteTablePathValidated ==
    (call.fn = "ReverseProxyServerSetup" /\ call.pc = "done") =>
        LET err == ValidateRouteTablePath(call.in.RoutingTable, call.in.files)
        IN  /\ (err = "nil") = RouteTablePathGood
            /\ (call.in.RoutingTable \in call.in.files /\ ~RouteTablePathGood)
                  => err = "ErrInvalid"
            /\ ~RouteTablePathGood =>
                  call.out.server = "nil" /\ call.out.err # "nil"

RouteTableTxtWitness ==
    /\ call.fn = "ReverseProxyServerSetup"
    /\ call.pc = "done"
    /\ call.in.Port = 8080
    /\ call.in.failing = {}
    /\ call.in.RoutingTable = <<"r", ".", "t", "x", "t">>
    /\ call.in.RoutingTable \in call.in.files
    /\ call.out = [server |-> "nil", err |-> "ERR_INVALID_ROUTE_TABLE"]

HasSelected(k) == conns[k].upstream # NoUpStream

\* C34: the selections of connections handled concurrently are serialised
\* and each one advances the shared cursor: two connections that have both
\* selected on a pool of at least two upstreams have distinct upstreams,
\* and the cursor has left its initial value once a selection was made
ConcurrentSelectionsDistinct ==
    /\ \A k, j \in 1..MaxConn :
          (k # j /\ HasSelected(k) /\ HasSelected(j) /\ Len(pool) >= MaxConn)
              => conns[k].upstream # conns[j].upstream
    /\ (\E k \in 1..MaxConn : HasSelected(k)) => currentServer # -1

\* C35: the accept loop starts a relay task only for a connection that
\* Accept returned without error: no task runs on a nil connection, and a
\* failed Accept does not end the process that serves the others
RelayOnlyAcceptedConn ==
    /\ \A k \in 1..MaxConn : conns[k].pc # "none" => conns[k].client # "nil"
    /\ \A k \in 1..MaxConn : conns[k].pc # "panic"

\* C36: the load balancer never runs a selection on an empty pool: the
\* setup returns an error and no engine for a pool file that decodes to
\* zero upstreams, and the selection of a constructed engine does not panic
EmptyPoolRejected ==
    call.fn = "LoadBalancingServerSetup" =>
        /\ (call.pc = "done" /\ call.in.decoded = 0) =>
              call.out.server = "nil" /\ call.out.err # "nil"
        /\ call.pc = "selected" => ~call.out.selection.panic

\* C38: in a process where no engine has been started the stop, restart and
\* destroy subcommands complete without a method call on the nil server
NoCommandOnUnsetEngine ==
    (/\ call.fn = "main"
     /\ call.pc = "done"
     /\ call.in.command \in {"stop", "restart", "destroy"}
     /\ call.in.server = "nil") =>
        call.out = [panic |-> FALSE, called |-> "none"]

\* C39: with no other step failing, forward-proxy setup constructs the
\* engine with an empty blacklist when no path is configured, and with the
\* lines of the file as its blacklist when the path of an existing .txt
\* file is configured
BlackListLoadedWhenConfigured ==
    (/\ call.fn \in {"ForwardProxyServerSetup", "ForwardProxyServerSetupFatal"}
     /\ call.pc = "done"
     /\ call.in.failing = {}
     /\ call.in.Port \in 1..65535) =>
        /\ call.in.BlackList = <<>> =>
              call.out = [server |-> "jinx", err |-> "nil", BlackList |-> <<>>]
        /\ (/\ call.in.BlackList = <<"b", ".", "t", "x", "t">>
            /\ call.in.BlackList \in call.in.files) =>
              call.out = [server |-> "jinx", err |-> "nil",
                          BlackList |-> call.in.lines]

\* the file f lies beneath the directory dir
Beneath(f, dir) ==
    /\ Len(f) > Len(dir) + 1
    /\ SubSeq(f, 1, Len(dir)) = dir
    /\ f[Len(dir) + 1] = "/"

\* the file f lies beneath one directory of the website root
BeneathHostDir(f) ==
    /\ Beneath(f, WebsiteRoot)
    /\ LET elems == Split(SubSeq(f, Len(WebsiteRoot) + 2, Len(f)), "/")
       IN  Len(elems) >= 2 /\ elems[1] \notin {<<>>, <<".">>, DotDot}

\* C37: for every Host and URL path the file the origin resolves, the
\* served file or the 404 document, lies beneath one host directory of the
\* website root or beneath workingDir/www
ResolvedInsideTrees ==
    Origin =>
        LET f == ResolveFilePath(req).file
        IN  Beneath(f, DefaultSite) \/ BeneathHostDir(f)

\* C40: the server handle of each engine is nil before Start, set by Start
\* and nil again after Destroy, so that a Stop, Restart or Destroy that
\* follows a Destroy changes nothing of the engine
HandleSetByStartClearedByDestroy ==
    /\ [](/\ startPc = "idle" => serverInstance = "nil"
          /\ lastCall = "Start" => serverInstance = "set"
          /\ (lastCall = "Destroy" /\ startPc # "idle")
                => serverInstance = "nil")
    /\ [][(/\ lastCall = "Destroy"
           /\ startPc # "idle"
           /\ (StopCall \/ RestartCall \/ DestroyCall))
              => EngineState' = EngineState]_vars

====
